---- MODULE Spec2Model ----
(***************************************************************************)
(* Model of the goredis client (package goredis in src/redis.go): the      *)
(* channel pool of Connections, the ordinary command path                  *)
(* Redis.SendCommand with its EOF handling, openConnection with its        *)
(* handshake, and the Pipelined and Transaction handles.                   *)
(*                                                                         *)
(* The server and the network are the environment: a dial can fail, the   *)
(* server can reject AUTH or SELECT, and it can close any open connection  *)
(* before the client uses it again.                                         *)
(***************************************************************************)
EXTENDS Integers, Sequences, FiniteSets, TLC

\* ---- bounds of the model ------------------------------------------------
MaxCmds == 2             \* commands sent on one Pipelined handle
MaxQueue == 2            \* commands queued on one Transaction handle
MaxFrames == 2           \* frames pushed to a PubSub handle and not yet read
MaxConns == 3            \* connections a ConnPool's Dial makes
MaxActive == 3           \* value of ConnPool.active up to which Get is called
MaxReplies == 2          \* replies the server writes to one stream
MaxBytes == 4            \* length of an arbitrary byte stream
MaxArgs == 2             \* arguments of one packCommand call
MaxItems == 2            \* items of one packArgs call after the verb

\* ---- program constants --------------------------------------------------
MAX_CONNECTIONS == 1024

Callers == {1, 2}        \* the goroutines that use the client
Nil == 0                 \* the nil *Connection
\* the size, db and password arguments of DialTimeout
DialInputs ==
    { [size |-> 0, db |-> -1, password |-> ""],
      [size |-> 1, db |-> 0, password |-> "secret"],
      [size |-> 1, db |-> 1, password |-> "secret"],
      [size |-> 2, db |-> 1, password |-> ""] }

VARIABLES
    wire,     \* one connection seen as bytes: its stream and the last decoding result
    connPool, \* a ConnPool with its connections and the goroutines calling it
    ps,       \* per goroutine: its PubSub handle
    srv,      \* per goroutine: the server's state of its handle's connection
    tx,       \* per goroutine: what was done on its Transaction handle
    r,        \* the Redis struct: size, db, password
    pool,     \* r.pool: the buffered channel of *Connection (0 is nil)
    conns,    \* the connections the client still refers to, by identity
    call,     \* per goroutine: what it is doing, and the locals of Redis.SendCommand
    pipe,     \* per goroutine: the Pipelined handle it holds
    prevEOF,  \* the ordinary call that returned last saw io.EOF
    ev        \* what the last step did and returned (observation only)

vars == <<wire, connPool, ps, srv, tx, r, pool, conns, call, pipe, prevEOF, ev>>

\* ---- replies on the wire ------------------------------------------------
\* a reply: k and n name the command it answers (n is the Integer of an
\* Integer reply, and negative for a nil Bulk or Multi), t is its Type, s its
\* Status or Error string, m its Multi elements
Tok(k, n, t) == [k |-> k, n |-> n, t |-> t, s |-> "", m |-> <<>>]
StatusOK(cmd) == [Tok(cmd, 0, "status") EXCEPT !.s = "OK"]
ErrorRp(cmd) == [Tok(cmd, 0, "error") EXCEPT !.s = "ERR"]
CmdReply(p) == Tok("cmd", p, "bulk")     \* the reply to caller p's command
PipeReply(i) == Tok("pipe", i, "bulk")   \* the reply to the i-th command of a handle
NoReply == Tok("none", 0, "none")        \* a nil *Reply

\* ---- Connection ---------------------------------------------------------
\* st: "open", "dead" (the server closed it), "closed" (Conn.Close was
\* called), "free" (no such connection: the identity is unused)
\* inbox: replies written by the server and not yet read by RecvReply
\* hs: handshake commands sent on it; ready: openConnection returned it
\* eof: an ordinary command call got io.EOF from it
NewConn == [st |-> "open", inbox |-> <<>>, hs |-> <<>>, ready |-> FALSE, eof |-> FALSE]
Free == [st |-> "free", inbox |-> <<>>, hs |-> <<>>, ready |-> FALSE, eof |-> FALSE]

\* what the server may have done to a connection by the time the client
\* uses it: nothing, closed it, or closed it without writing pending replies
Env(cr) ==
    {cr} \cup (IF cr.st = "open"
               THEN {[cr EXCEPT !.st = "dead"], [cr EXCEPT !.st = "dead", !.inbox = <<>>]}
               ELSE {})

\* net.Conn.Write: succeeds on an open connection; on one the server has
\* closed it may still succeed (the bytes are lost), return io.EOF or
\* return another error; it fails on one the client has closed.
SendOutcomes(cr) ==
    IF cr.st = "open" THEN {"ok"}
    ELSE IF cr.st = "dead" THEN {"ok", "eof", "err"}
    ELSE {"err"}

\* the server answers every command it receives on an open connection
ConnSend(cr, rp) ==
    IF cr.st = "open" THEN [cr EXCEPT !.inbox = Append(@, rp)] ELSE cr

\* Connection.SendCommand: every way the call can go; cr is the connection
\* afterwards, out the error returned, env whether the server closed it now
Send(cr, rp) ==
    UNION { { [cr |-> IF so = "ok" THEN ConnSend(e, rp) ELSE e,
               out |-> so, env |-> e # cr] : so \in SendOutcomes(e) } : e \in Env(cr) }

\* reading one reply: buffered replies can be read, then a dead connection
\* gives io.EOF; a reset gives another error and discards what was
\* buffered; an open connection with nothing to read blocks; a connection
\* the client closed fails.
RecvOutcomes(cr) ==
    IF cr.st = "closed" THEN {"err"}
    ELSE (IF cr.inbox # <<>> THEN {"ok"} ELSE {})
         \cup (IF cr.st = "dead" /\ cr.inbox = <<>> THEN {"eof"} ELSE {})
         \cup (IF cr.st = "dead" THEN {"err"} ELSE {})

ConnRecv(cr) == [cr EXCEPT !.inbox = Tail(@)]

\* the Reply RecvReply builds from a frame: for '*' with a count i >= 0 it
\* reads i elements into Multi, with a negative count Multi stays nil
RecvReplyOf(f) ==
    IF f.t = "multi"
    THEN [f EXCEPT !.m = IF f.n >= 0 THEN SubSeq(f.m, 1, f.n) ELSE <<>>]
    ELSE f

\* Connection.RecvReply: every way the call can go; rp is the reply returned
Recv(cr) ==
    UNION { { [cr |-> IF ro = "ok" THEN ConnRecv(e)
                      ELSE IF ro = "err" THEN [e EXCEPT !.inbox = <<>>] ELSE e,
               out |-> ro,
               rp |-> IF ro = "ok" THEN RecvReplyOf(Head(e.inbox)) ELSE NoReply,
               env |-> e # cr] : ro \in RecvOutcomes(e) } : e \in Env(cr) }

\* c.Conn.Close(): what was buffered can no longer be read
ConnClose(cr) == [cr EXCEPT !.st = "closed", !.inbox = <<>>]

\* ---- DialTimeout --------------------------------------------------------
ClampSize(size) ==
    IF size < 1 THEN 1 ELSE IF size > MAX_CONNECTIONS THEN MAX_CONNECTIONS ELSE size

ClampDb(db) == IF db < 0 THEN 0 ELSE db

\* ---- openConnection -----------------------------------------------------
FreeIds(cs) == {i \in DOMAIN cs : cs[i].st = "free"}
NewId(cs) == CHOOSE i \in FreeIds(cs) : \A j \in FreeIds(cs) : i <= j

\* what the server does with a dial: "fail" (net.DialTimeout fails), "ok",
\* "authrej" / "selrej" (it answers AUTH / SELECT with an Error reply)
DialOutcomes(cs) ==
    IF FreeIds(cs) = {} THEN {"fail"}
    ELSE {"fail", "ok"}
         \cup (IF r.password # "" THEN {"authrej"} ELSE {})
         \cup (IF r.db > 0 THEN {"selrej"} ELSE {})

\* one handshake command: c.SendCommand(cmd, arg), rp, err := c.RecvReply(),
\* if rp.Type == ErrorReply { return nil, errors.New(rp.Error) }
Exchange(cr, cmd, arg, rejected) ==
    LET sent == [ConnSend(cr, IF rejected THEN ErrorRp(cmd) ELSE StatusOK(cmd))
                   EXCEPT !.hs = Append(@, [cmd |-> cmd, arg |-> arg])]
        rp == Head(sent.inbox)
    IN [cr |-> ConnRecv(sent), err |-> rp.t = "error"]

\* variant: SELECT is sent before AUTH
openConnectionOn_swapped(rd, o) ==
    LET s == IF rd.db > 0
             THEN Exchange(NewConn, "SELECT", ToString(rd.db), o = "selrej")
             ELSE [cr |-> NewConn, err |-> FALSE]
        a == IF rd.password # ""
             THEN Exchange(s.cr, "AUTH", rd.password, o = "authrej")
             ELSE [cr |-> s.cr, err |-> FALSE]
    IN IF s.err THEN [cr |-> s.cr, err |-> TRUE]
       ELSE IF a.err THEN [cr |-> a.cr, err |-> TRUE]
       ELSE [cr |-> [a.cr EXCEPT !.ready = TRUE], err |-> FALSE]

\* the handshake on a freshly dialed connection
openConnectionOn(rd, o) ==
    LET a == IF rd.password # ""
             THEN Exchange(NewConn, "AUTH", rd.password, o = "authrej")
             ELSE [cr |-> NewConn, err |-> FALSE]
        s == IF rd.db > 0
             THEN Exchange(a.cr, "SELECT", ToString(rd.db), o = "selrej")
             ELSE [cr |-> a.cr, err |-> FALSE]
    IN IF a.err THEN [cr |-> a.cr, err |-> TRUE]
       ELSE IF s.err THEN [cr |-> s.cr, err |-> TRUE]
       ELSE [cr |-> [s.cr EXCEPT !.ready = TRUE], err |-> FALSE]

\* the result of r.openConnection() when the server does o: c is the
\* *Connection returned (Nil with an error), cs the connections afterwards,
\* drop the connections dialed and then abandoned without a Close
openConnection(cs, o) ==
    IF o = "fail" THEN [c |-> Nil, err |-> TRUE, cs |-> cs, drop |-> 0]
    ELSE LET oc == openConnectionOn(r, o)
         IN IF oc.err THEN [c |-> Nil, err |-> TRUE, cs |-> cs, drop |-> 1]
            ELSE [c |-> NewId(cs), err |-> FALSE,
                  cs |-> [cs EXCEPT ![NewId(cs)] = oc.cr], drop |-> 0]

\* variant: the slot is read but stays in the channel
getConnection_keep(o) ==
    LET c == Head(pool)
        oc == openConnection(conns, o)
    IN IF c = Nil
       THEN [c |-> oc.c, err |-> oc.err, cs |-> oc.cs, drop |-> oc.drop, pl |-> pool]
       ELSE [c |-> c, err |-> FALSE, cs |-> conns, drop |-> 0, pl |-> pool]

\* ---- the pool channel ---------------------------------------------------
\* c := <-r.pool ; if c == nil { return r.openConnection() }
\* pl is the channel after the receive
getConnection(o) ==
    LET c == Head(pool)
        oc == openConnection(conns, o)
    IN IF c = Nil
       THEN [c |-> oc.c, err |-> oc.err, cs |-> oc.cs, drop |-> oc.drop, pl |-> Tail(pool)]
       ELSE [c |-> c, err |-> FALSE, cs |-> conns, drop |-> 0, pl |-> Tail(pool)]

\* the dial outcomes getConnection depends on
GetOutcomes == IF Head(pool) = Nil THEN DialOutcomes(conns) ELSE {"ok"}

\* variant: the connection is not put back
activeConnection_drop(pl, c) == pl

\* variant: the connection is sent to the channel twice
activeConnection_twice(pl, c) == Append(Append(pl, c), c)

\* r.pool <- c
activeConnection(pl, c) == Append(pl, c)

\* ---- Reply projections --------------------------------------------------
\* each returns its value v, whether the error is non-nil, and the error's
\* text msg; a Bulk or Multi whose n is negative is the nil slice
TypeError(v, what) == [v |-> v, err |-> TRUE, msg |-> what]
ServerError(v, rp) == [v |-> v, err |-> TRUE, msg |-> rp.s]
Value(v) == [v |-> v, err |-> FALSE, msg |-> ""]

\* Reply.StatusValue
StatusValue(rp) ==
    IF rp.t = "error" THEN ServerError("", rp)
    ELSE IF rp.t # "status" THEN TypeError("", "invalid reply type, not status")
    ELSE Value(rp.s)

\* variant: a Multi reply without elements is refused
MultiValue_strict(rp) ==
    IF rp.t = "error" THEN ServerError(<<>>, rp)
    ELSE IF rp.t # "multi" \/ rp.n < 0 THEN TypeError(<<>>, "invalid reply type, not multi bulk")
    ELSE Value(rp.m)

\* Reply.MultiValue
MultiValue(rp) ==
    IF rp.t = "error" THEN ServerError(<<>>, rp)
    ELSE IF rp.t # "multi" THEN TypeError(<<>>, "invalid reply type, not multi bulk")
    ELSE Value(rp.m)

\* Reply.StringValue; a nil Bulk gives ""
StringValue(rp) ==
    IF rp.t = "error" THEN ServerError("", rp)
    ELSE IF rp.t # "bulk" THEN TypeError("", "invalid reply type, not bulk")
    ELSE Value(rp.s)

\* Reply.IntegerValue
IntegerValue(rp) ==
    IF rp.t = "error" THEN ServerError(0, rp)
    ELSE IF rp.t # "integer" THEN TypeError(0, "invalid reply type, not integer")
    ELSE Value(rp.n)

\* Reply.BoolValue
BoolValue(rp) ==
    IF rp.t = "error" THEN ServerError(FALSE, rp)
    ELSE IF rp.t # "integer" THEN TypeError(FALSE, "invalid reply type, not integer")
    ELSE Value(rp.n # 0)

\* Reply.OKValue on a reply read from bytes: nil for the status OK, else an
\* error with the status as its text
OKValue(rp) ==
    IF rp.t = "error" THEN ServerError("", rp)
    ELSE IF rp.t # "status" THEN TypeError("", "invalid reply type, not status")
    ELSE IF rp.s = <<"O", "K">> THEN Value("")
    ELSE [v |-> "", err |-> TRUE, msg |-> rp.s]

\* a []byte: nil, or its bytes b
NilBytes == [nil |-> TRUE, b |-> <<>>]
\* the Bulk field of a Reply
Bulk(rp) == [nil |-> rp.n < 0, b |-> rp.s]

\* Reply.BytesValue
BytesValue(rp) ==
    IF rp.t = "error" THEN ServerError(NilBytes, rp)
    ELSE IF rp.t # "bulk" THEN TypeError(NilBytes, "invalid reply type, not bulk")
    ELSE Value(Bulk(rp))

\* the projection a projection of a sequence applies to each element:
\* BytesValue in BytesArrayValue, BoolValue in BoolArrayValue, StringValue
\* in ListValue and HashValue
ElementValue(f, rp) ==
    CASE f = "BytesArrayValue" -> BytesValue(rp)
      [] f = "BoolArrayValue" -> BoolValue(rp)
      [] OTHER -> StringValue(rp)

\* the first element of elems on which the element projection fails, 0 if
\* none
FirstError(f, elems) ==
    LET bad == {j \in 1..Len(elems) : ElementValue(f, elems[j]).err}
    IN IF bad = {} THEN 0 ELSE CHOOSE j \in bad : \A k \in bad : j <= k

\* the body shared by ListValue, BytesArrayValue and BoolArrayValue: the
\* element projection on every element of rp.Multi in order, the first error
\* ends the loop
ArrayValue(f, rp) ==
    IF rp.t = "error" THEN ServerError(<<>>, rp)
    ELSE IF rp.t # "multi" THEN TypeError(<<>>, "invalid reply type, not multi bulk")
    ELSE LET j == FirstError(f, rp.m)
         IN IF j # 0 THEN [v |-> <<>>, err |-> TRUE, msg |-> ElementValue(f, rp.m[j]).msg]
            ELSE Value([i \in 1..Len(rp.m) |-> ElementValue(f, rp.m[i]).v])

\* variant: an element that fails is left out
ListValue_skip(rp) ==
    IF rp.t = "error" THEN ServerError(<<>>, rp)
    ELSE IF rp.t # "multi" THEN TypeError(<<>>, "invalid reply type, not multi bulk")
    ELSE Value([i \in {j \in 1..Len(rp.m) : ~StringValue(rp.m[j]).err} |-> StringValue(rp.m[i]).v])

\* Reply.ListValue
ListValue(rp) == ArrayValue("ListValue", rp)
\* Reply.BytesArrayValue
BytesArrayValue(rp) == ArrayValue("BytesArrayValue", rp)
\* Reply.BoolArrayValue
BoolArrayValue(rp) == ArrayValue("BoolArrayValue", rp)

\* variant: the first value written for a key stays
HashValue_first(rp) ==
    IF rp.t = "error" THEN ServerError(<<>>, rp)
    ELSE IF rp.t # "multi" THEN TypeError(<<>>, "invalid reply type, not multi bulk")
    ELSE LET length == Len(rp.m)
             pairs == 1..(length \div 2)
             j == FirstError("HashValue", SubSeq(rp.m, 1, 2 * (length \div 2)))
             key(i) == StringValue(rp.m[2 * i - 1]).v
             first(k) == CHOOSE i \in pairs : key(i) = k /\ \A h \in pairs : key(h) = k => i <= h
         IN IF j # 0 THEN [v |-> <<>>, err |-> TRUE, msg |-> StringValue(rp.m[j]).msg]
            ELSE Value([k \in {key(i) : i \in pairs} |-> StringValue(rp.m[2 * first(k)]).v])

\* Reply.HashValue: for i < length/2, result[key] = value with the
\* StringValue of elements 2i and 2i+1 (here 2i-1 and 2i, counted from 1)
HashValue(rp) ==
    IF rp.t = "error" THEN ServerError(<<>>, rp)
    ELSE IF rp.t # "multi" THEN TypeError(<<>>, "invalid reply type, not multi bulk")
    ELSE LET length == Len(rp.m)
             pairs == 1..(length \div 2)
             j == FirstError("HashValue", SubSeq(rp.m, 1, 2 * (length \div 2)))
             key(i) == StringValue(rp.m[2 * i - 1]).v
             last(k) == CHOOSE i \in pairs : key(i) = k /\ \A h \in pairs : key(h) = k => h <= i
         IN IF j # 0 THEN [v |-> <<>>, err |-> TRUE, msg |-> StringValue(rp.m[j]).msg]
            ELSE Value([k \in {key(i) : i \in pairs} |-> StringValue(rp.m[2 * last(k)]).v])

\* ---- command wrappers ----------------------------------------------------
\* each as a function of what Redis.SendCommand returned: the reply rp and
\* whether the error is non-nil
CallError(v) == [v |-> v, err |-> TRUE, msg |-> "i/o"]

\* variant: the reply's OKValue is returned
Ping_checked(rp, err) == IF err THEN CallError("") ELSE OKValue(rp)

\* _, err := r.SendCommand(...); return err
Ping(rp, err) == IF err THEN CallError("") ELSE Value("")
MSet(rp, err) == IF err THEN CallError("") ELSE Value("")
PSetex(rp, err) == IF err THEN CallError("") ELSE Value("")
FlushAll(rp, err) == IF err THEN CallError("") ELSE Value("")
FlushDB(rp, err) == IF err THEN CallError("") ELSE Value("")
BgSave(rp, err) == IF err THEN CallError("") ELSE Value("")

\* Redis.BLPop and Redis.BRPop: nil, nil when rp.Multi is nil
BLPop(rp, err) ==
    IF err THEN CallError(<<>>)
    ELSE IF ~(rp.t = "multi" /\ rp.n >= 0) THEN Value(<<>>)
    ELSE ListValue(rp)
BRPop(rp, err) ==
    IF err THEN CallError(<<>>)
    ELSE IF ~(rp.t = "multi" /\ rp.n >= 0) THEN Value(<<>>)
    ELSE ListValue(rp)

\* Redis.Get, Redis.Append, Redis.HGetAll, Redis.HMSet
RedisGet(rp, err) == IF err THEN CallError(NilBytes) ELSE BytesValue(rp)
Append_(rp, err) == IF err THEN CallError(0) ELSE IntegerValue(rp)
HGetAll(rp, err) == IF err THEN CallError(<<>>) ELSE HashValue(rp)
HMSet(rp, err) == IF err THEN CallError("") ELSE OKValue(rp)

\* the projections and the wrappers by name
Projections == {"IntegerValue", "BoolValue", "StatusValue", "OKValue", "BytesValue",
                "StringValue", "MultiValue", "HashValue", "ListValue",
                "BytesArrayValue", "BoolArrayValue"}
Wrappers == {"Ping", "MSet", "PSetex", "FlushAll", "FlushDB", "BgSave", "BLPop", "BRPop",
             "Get", "Append", "HGetAll", "HMSet"}
Apply(f, rp, err) ==
    CASE f = "IntegerValue" -> IntegerValue(rp)
      [] f = "BoolValue" -> BoolValue(rp)
      [] f = "StatusValue" -> StatusValue(rp)
      [] f = "OKValue" -> OKValue(rp)
      [] f = "BytesValue" -> BytesValue(rp)
      [] f = "StringValue" -> StringValue(rp)
      [] f = "MultiValue" -> MultiValue(rp)
      [] f = "HashValue" -> HashValue(rp)
      [] f = "ListValue" -> ListValue(rp)
      [] f = "BytesArrayValue" -> BytesArrayValue(rp)
      [] f = "BoolArrayValue" -> BoolArrayValue(rp)
      [] f = "Ping" -> Ping(rp, err)
      [] f = "MSet" -> MSet(rp, err)
      [] f = "PSetex" -> PSetex(rp, err)
      [] f = "FlushAll" -> FlushAll(rp, err)
      [] f = "FlushDB" -> FlushDB(rp, err)
      [] f = "BgSave" -> BgSave(rp, err)
      [] f = "BLPop" -> BLPop(rp, err)
      [] f = "BRPop" -> BRPop(rp, err)
      [] f = "Get" -> RedisGet(rp, err)
      [] f = "Append" -> Append_(rp, err)
      [] f = "HGetAll" -> HGetAll(rp, err)
      [] f = "HMSet" -> HMSet(rp, err)

\* strconv.FormatInt(number, 10)
FormatInt(number) == ToString(number)

\* strings.ToLower on the words of the Pub/Sub protocol
ToLower(str) ==
    CASE str = "SUBSCRIBE" -> "subscribe"
      [] str = "UNSUBSCRIBE" -> "unsubscribe"
      [] str = "PSUBSCRIBE" -> "psubscribe"
      [] str = "PUNSUBSCRIBE" -> "punsubscribe"
      [] str = "MESSAGE" -> "message"
      [] str = "PMESSAGE" -> "pmessage"
      [] OTHER -> str

\* ---- the wire format: bytes -----------------------------------------------
\* a byte is a one-character string and a byte string a sequence of bytes;
\* NUL stands for the byte 0
CR == "\r"
LF == "\n"
NUL == "@"
CRLF == <<CR, LF>>
DecimalDigits == <<"0", "1", "2", "3", "4", "5", "6", "7", "8", "9">>
IsDigit(b) == \E d \in 1..10 : DecimalDigits[d] = b
DigitValue(b) == (CHOOSE d \in 1..10 : DecimalDigits[d] = b) - 1

\* strconv.Itoa, and the verb %d of fmt
RECURSIVE Itoa(_)
Itoa(i) ==
    IF i < 0 THEN <<"-">> \o Itoa(-i)
    ELSE IF i < 10 THEN <<DecimalDigits[i + 1]>>
    ELSE Itoa(i \div 10) \o <<DecimalDigits[(i % 10) + 1]>>

\* the value of a non-empty string of decimal digits
RECURSIVE DecimalValue(_)
DecimalValue(str) ==
    IF Len(str) = 1 THEN DigitValue(str[1])
    ELSE 10 * DecimalValue(SubSeq(str, 1, Len(str) - 1)) + DigitValue(str[Len(str)])

\* strconv.ParseInt(str, 10, 64): an optional sign, then one digit or more
\* (the strings used are too short to leave the range of int64)
ParseInt(str) ==
    LET signed == str # <<>> /\ str[1] \in {"+", "-"}
        digits == IF signed THEN Tail(str) ELSE str
    IN IF digits = <<>> \/ \E i \in 1..Len(digits) : ~IsDigit(digits[i])
       THEN [v |-> 0, err |-> TRUE]
       ELSE [v |-> IF str[1] = "-" THEN -DecimalValue(digits) ELSE DecimalValue(digits),
             err |-> FALSE]

\* strconv.Atoi
Atoi(str) == ParseInt(str)

\* the replies RecvReply builds from bytes: s is a byte string
WNoReply == [Tok("none", 0, "none") EXCEPT !.s = <<>>]
WStatus(str) == [Tok("wire", 0, "status") EXCEPT !.s = str]
WError(str) == [Tok("wire", 0, "error") EXCEPT !.s = str]
WInteger(i) == Tok("wire", i, "integer")
WBulk(b) == [Tok("wire", Len(b), "bulk") EXCEPT !.s = b]
WNilBulk == [Tok("wire", -1, "bulk") EXCEPT !.s = <<>>]
WMulti(elems) == [Tok("wire", Len(elems), "multi") EXCEPT !.m = elems]
WNilMulti == Tok("wire", -1, "multi")

\* what the server writes for a reply (the Redis protocol)
RECURSIVE Encode(_)
Encode(rp) ==
    CASE rp.t = "status" -> <<"+">> \o rp.s \o CRLF
      [] rp.t = "error" -> <<"-">> \o rp.s \o CRLF
      [] rp.t = "integer" -> <<":">> \o Itoa(rp.n) \o CRLF
      [] rp.t = "bulk" ->
           IF rp.n < 0 THEN <<"$">> \o Itoa(-1) \o CRLF
           ELSE <<"$">> \o Itoa(Len(rp.s)) \o CRLF \o rp.s \o CRLF
      [] rp.t = "multi" ->
           IF rp.n < 0 THEN <<"*">> \o Itoa(-1) \o CRLF
           ELSE LET RECURSIVE All(_)
                    All(elems) == IF elems = <<>> THEN <<>>
                                  ELSE Encode(Head(elems)) \o All(Tail(elems))
                IN <<"*">> \o Itoa(Len(rp.m)) \o CRLF \o All(rp.m)

\* what a call of RecvReply gives: the reply, the error, a run-time panic,
\* and the bytes it left in the stream
WOk(rp, rest) == [rp |-> rp, err |-> FALSE, panic |-> FALSE, rest |-> rest]
WErr(rest) == [rp |-> WNoReply, err |-> TRUE, panic |-> FALSE, rest |-> rest]
WPanic(rest) == [rp |-> WNoReply, err |-> FALSE, panic |-> TRUE, rest |-> rest]

\* bufio.Reader.ReadBytes('\n'): the bytes up to and with the first LF; the
\* stream ending before one is an error
ReadBytes(buf) ==
    LET ends == {i \in 1..Len(buf) : buf[i] = LF}
    IN IF ends = {} THEN [line |-> buf, err |-> TRUE, rest |-> <<>>]
       ELSE LET i == CHOOSE j \in ends : \A k \in ends : j <= k
            IN [line |-> SubSeq(buf, 1, i), err |-> FALSE,
                rest |-> SubSeq(buf, i + 1, Len(buf))]

\* variant: the two bytes after the payload are left in the stream
readBulk_short(buf, size) ==
    IF size < 0 THEN WOk(WNilBulk, buf)
    ELSE IF Len(buf) < size THEN WErr(<<>>)
    ELSE WOk(WBulk(SubSeq(buf, 1, size)), SubSeq(buf, size + 1, Len(buf)))

\* variant: a length of zero gives the nil payload too
readBulk_zero(buf, size) ==
    IF size <= 0 THEN WOk(WNilBulk, IF size < 0 THEN buf ELSE SubSeq(buf, 3, Len(buf)))
    ELSE IF Len(buf) < size + 2 THEN WErr(<<>>)
    ELSE WOk(WBulk(SubSeq(buf, 1, size)), SubSeq(buf, size + 3, Len(buf)))

\* Connection.readBulk: nil for a negative size; else size + 2 bytes are
\* read with io.ReadFull and the first size of them returned
readBulk(buf, size) ==
    IF size < 0 THEN WOk(WNilBulk, buf)
    ELSE IF Len(buf) < size + 2 THEN WErr(<<>>)
    ELSE WOk(WBulk(SubSeq(buf, 1, size)), SubSeq(buf, size + 3, Len(buf)))

\* Connection.RecvReply on the bytes buf of a stream that has ended or holds
\* all that the call reads
RECURSIVE RecvReply(_)
RecvReply(buf) ==
    LET l == ReadBytes(buf)
        line == SubSeq(l.line, 1, Len(l.line) - 2)
        i == ParseInt(Tail(line))
        size == Atoi(Tail(line))
        RECURSIVE Loop(_, _, _)
        \* for itr := 0; itr < i; itr++ { rp, err := c.RecvReply() ... }
        Loop(rest, n, multi) ==
            IF n = 0 THEN WOk(WMulti(multi), rest)
            ELSE LET x == RecvReply(rest)
                 IN IF x.err \/ x.panic THEN [x EXCEPT !.rp = WNoReply]
                    ELSE Loop(x.rest, n - 1, Append(multi, x.rp))
    IN IF l.err THEN WErr(l.rest)
       ELSE IF Len(l.line) < 2 THEN WPanic(l.rest)      \* line[:len(line)-2]
       ELSE IF line = <<>> THEN WPanic(l.rest)          \* line[0]
       ELSE CASE line[1] = "-" -> WOk(WError(Tail(line)), l.rest)
              [] line[1] = "+" -> WOk(WStatus(Tail(line)), l.rest)
              [] line[1] = ":" -> IF i.err THEN WErr(l.rest)
                                  ELSE WOk(WInteger(i.v), l.rest)
              [] line[1] = "$" -> IF size.err THEN WErr(l.rest)
                                  ELSE readBulk(l.rest, size.v)
              [] line[1] = "*" -> IF size.err THEN WErr(l.rest)
                                  ELSE IF size.v >= 0 THEN Loop(l.rest, size.v, <<>>)
                                  ELSE WOk(WNilMulti, l.rest)
              [] OTHER -> WErr(l.rest)

\* variant: no CR LF after an argument
packCommand_bare(args) ==
    LET RECURSIVE Args(_)
        Args(as) == IF as = <<>> THEN <<>>
                    ELSE <<"$">> \o Itoa(Len(Head(as))) \o CRLF \o Head(as) \o Args(Tail(as))
    IN <<"*">> \o Itoa(Len(args)) \o CRLF \o Args(args)

\* packCommand for arguments that are strings or []byte:
\* "*%d\r\n" with their number, then "$%d\r\n%s\r\n" for each
packCommand(args) ==
    LET RECURSIVE Args(_)
        Args(as) == IF as = <<>> THEN <<>>
                    ELSE <<"$">> \o Itoa(Len(Head(as))) \o CRLF \o Head(as) \o CRLF
                         \o Args(Tail(as))
    IN <<"*">> \o Itoa(Len(args)) \o CRLF \o Args(args)

\* the stream of one connection: src says who wrote it, buf holds the bytes
\* not yet read, eof: the writer has closed it; sent: the replies the server
\* wrote, got: the replies RecvReply returned, args: the arguments
\* packCommand was given; op, pre, rp, err, panic: the last step, the bytes
\* before it, and what RecvReply returned; f, val: the projection or wrapper
\* applied to the reply and what it returned; items, packed: the items
\* packArgs was given and the arguments it returned
NoValue == [v |-> 0, err |-> FALSE, msg |-> ""]
NoWire == [src |-> "none", buf |-> <<>>, eof |-> FALSE, sent |-> <<>>, got |-> <<>>,
           args |-> <<>>, op |-> "init", pre |-> <<>>, rp |-> WNoReply,
           err |-> FALSE, panic |-> FALSE, f |-> "", val |-> NoValue,
           items |-> <<>>, packed |-> <<>>]

\* ---- packArgs ------------------------------------------------------------
\* an item of packArgs, by its reflect.Kind: k is "string", "int", "slice",
\* "bytes" (a slice of uint8), "map" or "nil" (the nil interface); nil: a nil
\* slice or map; s: the text of a scalar; e: the elements of a slice; b: the
\* bytes of a byte slice; m: the key/value pairs of a map
Item(k) == [k |-> k, nil |-> FALSE, s |-> "", e |-> <<>>, b |-> <<>>, m |-> {}]
StrItem(s) == [Item("string") EXCEPT !.s = s]
IntItem(s) == [Item("int") EXCEPT !.s = s]
SliceItem(e) == [Item("slice") EXCEPT !.e = e]
BytesItem(b) == [Item("bytes") EXCEPT !.b = b]
MapItem(m) == [Item("map") EXCEPT !.m = m]
NilOf(k) == [Item(k) EXCEPT !.nil = TRUE]

\* string(v.Bytes())
RECURSIVE StringOf(_)
StringOf(b) == IF b = <<>> THEN "" ELSE Head(b) \o StringOf(Tail(b))

\* v.MapKeys(): the keys in an order the runtime chooses
RECURSIVE Orders(_)
Orders(S) ==
    IF S = {} THEN {<<>>}
    ELSE UNION { { <<x>> \o o : o \in Orders(S \ {x}) } : x \in S }
MapKeys(m) == Orders({kv[1] : kv \in m})
MapIndex(m, key) == (CHOOSE kv \in m : kv[1] = key)[2]

\* key.Interface(), value.Interface() appended for every key of keys
RECURSIVE KeyValues(_, _)
KeyValues(m, keys) ==
    IF keys = <<>> THEN <<>>
    ELSE <<Head(keys), MapIndex(m, Head(keys))>> \o KeyValues(m, Tail(keys))

\* variant: an empty string is appended like any other
packItem_keepempty(item) ==
    IF item.k \in {"slice", "bytes", "map"} /\ item.nil THEN {<<>>}
    ELSE IF item.k = "bytes" THEN {<<StrItem(StringOf(item.b))>>}
    ELSE IF item.k = "slice" THEN {item.e}
    ELSE IF item.k = "map" THEN {KeyValues(item.m, keys) : keys \in MapKeys(item.m)}
    ELSE {<<item>>}

\* the body of the loop of packArgs: what one item appends to args
packItem(item) ==
    IF item.k \in {"slice", "bytes", "map"} /\ item.nil THEN {<<>>}
    ELSE IF item.k = "bytes" THEN {<<StrItem(StringOf(item.b))>>}
    ELSE IF item.k = "slice" THEN {item.e}
    ELSE IF item.k = "map" THEN {KeyValues(item.m, keys) : keys \in MapKeys(item.m)}
    ELSE IF item.k = "string" THEN IF item.s # "" THEN {<<item>>} ELSE {<<>>}
    ELSE {<<item>>}

RECURSIVE packLoop(_)
packLoop(items) ==
    IF items = <<>> THEN {<<>>}
    ELSE { h \o t : h \in packItem(Head(items)), t \in packLoop(Tail(items)) }

\* packArgs: the results it can return; reflect.ValueOf of a nil interface is
\* the zero Value, its Kind is Invalid and v.Interface() panics
packArgs(items) ==
    IF \E i \in 1..Len(items) : items[i].k = "nil"
    THEN {[args |-> <<>>, panic |-> TRUE]}
    ELSE {[args |-> a, panic |-> FALSE] : a \in packLoop(items)}

\* ---- the server's side of a Transaction connection -----------------------
\* multi: MULTI was accepted and EXEC / DISCARD did not follow yet
\* queue: the commands acknowledged with QUEUED since then
\* dirty: a command was refused while queueing (EXEC will be refused)
\* watching, tripped: a key is watched / a watched key was modified
\* chans, pats: the channels and the patterns the connection is subscribed to
NoSrv == [multi |-> FALSE, queue |-> <<>>, dirty |-> FALSE,
          watching |-> FALSE, tripped |-> FALSE, chans |-> {}, pats |-> {}]

\* the arguments of Transaction.Command: a command that succeeds, one that
\* fails when it is executed, one the server does not know, and MULTI
CmdKinds == {"SET", "INCR", "NOPE", "MULTI"}

\* the server's result of command cmd, executed as the i-th of a queue
Result(cmd, i) ==
    IF cmd = "INCR" THEN [ErrorRp(cmd) EXCEPT !.n = i]
    ELSE [StatusOK(cmd) EXCEPT !.n = i]

Queued(cmd) == [Tok(cmd, 0, "status") EXCEPT !.s = "QUEUED"]
MultiRp(cmd, elems) == [Tok(cmd, Len(elems), "multi") EXCEPT !.m = elems]
NullMulti(cmd) == Tok(cmd, -1, "multi")

\* what a Redis server answers to cmd in state sv, and its state afterwards
Answer(sv, cmd) ==
    IF cmd = "MULTI"
    THEN IF sv.multi THEN [sv |-> sv, rp |-> ErrorRp(cmd)]
         ELSE [sv |-> [sv EXCEPT !.multi = TRUE, !.queue = <<>>, !.dirty = FALSE],
               rp |-> StatusOK(cmd)]
    ELSE IF cmd = "EXEC"
    THEN IF ~sv.multi THEN [sv |-> sv, rp |-> ErrorRp(cmd)]
         ELSE IF sv.dirty THEN [sv |-> NoSrv, rp |-> ErrorRp(cmd)]
         ELSE IF sv.tripped THEN [sv |-> NoSrv, rp |-> NullMulti(cmd)]
         ELSE [sv |-> NoSrv,
               rp |-> MultiRp(cmd, [i \in 1..Len(sv.queue) |-> Result(sv.queue[i], i)])]
    ELSE IF cmd = "DISCARD"
    THEN IF ~sv.multi THEN [sv |-> sv, rp |-> ErrorRp(cmd)]
         ELSE [sv |-> NoSrv, rp |-> StatusOK(cmd)]
    ELSE IF cmd = "WATCH"
    THEN IF sv.multi THEN [sv |-> sv, rp |-> ErrorRp(cmd)]
         ELSE [sv |-> [sv EXCEPT !.watching = TRUE], rp |-> StatusOK(cmd)]
    ELSE IF sv.multi
    THEN IF cmd = "NOPE" THEN [sv |-> [sv EXCEPT !.dirty = TRUE], rp |-> ErrorRp(cmd)]
         ELSE [sv |-> [sv EXCEPT !.queue = Append(@, cmd)], rp |-> Queued(cmd)]
    ELSE IF cmd = "UNWATCH"
    THEN [sv |-> [sv EXCEPT !.watching = FALSE, !.tripped = FALSE], rp |-> StatusOK(cmd)]
    ELSE [sv |-> sv, rp |-> IF cmd \in {"NOPE", "INCR"} THEN ErrorRp(cmd) ELSE StatusOK(cmd)]

\* the answers a caller can get: that of Answer, or an Error reply from a
\* server that refuses commands for now (it is loading its data set)
Answers(sv, cmd) == {Answer(sv, cmd), [sv |-> sv, rp |-> ErrorRp(cmd)]}

\* ---- state of one goroutine ---------------------------------------------
\* pc: "idle"; "got" (inside Redis.SendCommand, after getConnection);
\* "ret" (return values set, deferred call pending); "pipe" / "txn" (it
\* holds a Pipelined / Transaction handle)
\* c: the local c (the handle's conn for "txn"); dc: the argument of the
\* deferred activeConnection; pre: the call started right after one that
\* saw io.EOF, on a slot that was vacant, usable or left by such a call;
\* eof: the call saw io.EOF
IdleCall == [pc |-> "idle", c |-> Nil, dc |-> Nil, pre |-> FALSE, eof |-> FALSE]

\* ---- the server's side of a PubSub connection ----------------------------
ChanNames == {"a", "b"}     \* the channels used
PatNames == {"a"}           \* the patterns used: one that is also a channel name
Payloads == {"hello"}       \* the messages published

\* glob matching of the patterns used
Matches(pattern, channel) == pattern = "*" \/ pattern = channel

BulkRp(str) == [Tok("push", 0, "bulk") EXCEPT !.s = str]
IntRp(i) == Tok("push", i, "integer")

\* the frames the server pushes: [kind, name, count], [message, channel,
\* payload] and [pmessage, pattern, channel, payload]
AckFrame(kind, name, count) == MultiRp("push", <<BulkRp(kind), BulkRp(name), IntRp(count)>>)
MessageFrame(channel, message) ==
    MultiRp("push", <<BulkRp("message"), BulkRp(channel), BulkRp(message)>>)
PMessageFrame(pattern, channel, message) ==
    MultiRp("push", <<BulkRp("pmessage"), BulkRp(pattern), BulkRp(channel), BulkRp(message)>>)

\* the server's answer to SUBSCRIBE / UNSUBSCRIBE / PSUBSCRIBE /
\* PUNSUBSCRIBE name: its subscriptions afterwards and the acknowledgment,
\* which carries the number of channels and patterns then subscribed
SubAnswer(sv, cmd, name) ==
    LET nsv == CASE cmd = "SUBSCRIBE" -> [sv EXCEPT !.chans = @ \cup {name}]
                 [] cmd = "UNSUBSCRIBE" -> [sv EXCEPT !.chans = @ \ {name}]
                 [] cmd = "PSUBSCRIBE" -> [sv EXCEPT !.pats = @ \cup {name}]
                 [] OTHER -> [sv EXCEPT !.pats = @ \ {name}]
    IN [sv |-> nsv,
        rp |-> AckFrame(ToLower(cmd), name, Cardinality(nsv.chans) + Cardinality(nsv.pats))]

\* the orders in which the elements of S can be listed
Orderings(S) ==
    {q \in [1..Cardinality(S) -> S] : \A i, j \in DOMAIN q : q[i] = q[j] => i = j}

\* the frames PUBLISH channel message makes the server push to a
\* connection: the message if it is subscribed to the channel, then one
\* pmessage per matching pattern
Pushed(sv, channel, message) ==
    LET direct == IF channel \in sv.chans THEN <<MessageFrame(channel, message)>> ELSE <<>>
    IN { direct \o [i \in DOMAIN q |-> PMessageFrame(q[i], channel, message)] :
           q \in Orderings({pt \in sv.pats : Matches(pt, channel)}) }

\* a PubSub handle: Channels, Patterns: the keys of its maps.
\* first: the channel of a Subscribe call made when no frame was unread
\* and not followed by a Recv yet
NoSub == [Channels |-> {}, Patterns |-> {}, first |-> ""]

\* ---- ConnPool ------------------------------------------------------------
MaxIdles == {0, 1, 2}       \* the MaxIdle arguments of NewConnPool

\* a goroutine at the pool: pc where it is ("idle": in no call; "Get.lock",
\* "Put.lock", "Close.lock": at p.mutex.Lock(); "Get.dial": in p.Dial()),
\* c the connection it has checked out, late: the pool was closed when it
\* made the call
NoTh == [pc |-> "idle", c |-> Nil, late |-> FALSE]

\* NewConnPool(maxidle, dial): idle is list.New(), active 0, closed false,
\* the mutex unlocked. cn: the state of each connection Dial can make
\* ("free": not made yet); th: the goroutines; crashed: a panic ended the
\* program
NewConnPool(maxidle) ==
    [MaxIdle |-> maxidle, idle |-> <<>>, active |-> 0, closed |-> FALSE, locked |-> FALSE,
     cn |-> [i \in 1..MaxConns |-> "free"], th |-> [g \in Callers |-> NoTh],
     crashed |-> FALSE]

\* what was done on a Transaction handle since Redis.Transaction returned
\* it: acks, cmds: the Command calls that returned nil and their commands;
\* pure: nothing but such Command calls was done
NoTx == [acks |-> 0, cmds |-> <<>>, pure |-> FALSE]

\* a Pipelined handle: conn; times: p.times; n, m: Command and Receive
\* calls that returned nil since Pipelining
NoPipe == [conn |-> Nil, times |-> 0, n |-> 0, m |-> 0]

\* the last step: op the operation, p the goroutine, c the connection it
\* ended on, res / err its return values, drop the connections it abandoned
\* without closing them.
\* For Redis.SendCommand: sEOF, rEOF: the first send / the first receive
\* returned io.EOF; nd, ns, nr: openConnection, SendCommand and RecvReply
\* calls made after getConnection; nx: the sends that reached the server
\* (written to a connection the server had not closed); dfail: a dial
\* failed; env: the server
\* closed a connection during the call; pre as in the call.
\* For Pipelined: rps the replies returned, reads the RecvReply calls made,
\* t0, m0: p.times and m when the method was called.
\* For handles: io: a send or a receive of the operation failed.
\* For Transaction: pure, cmds: the handle's record when the method was
\* called; q, trip: the server's queue length and WATCH conflict then.
\* For PubSub: arg the name passed; out the strings Recv returned,
\* panic: it indexed past the end of Multi.
\* For ConnPool: late: the pool was closed when the method was called;
\* panic: list.Remove was handed a nil element.
NoEv == [op |-> "init", p |-> 0, c |-> Nil, res |-> NoReply, err |-> FALSE, drop |-> 0,
         sEOF |-> FALSE, rEOF |-> FALSE, nd |-> 0, ns |-> 0, nr |-> 0, nx |-> 0,
         dfail |-> FALSE, env |-> FALSE, pre |-> FALSE,
         rps |-> <<>>, reads |-> 0, t0 |-> 0, m0 |-> 0,
         io |-> FALSE, pure |-> FALSE, cmds |-> <<>>, q |-> 0, trip |-> FALSE,
         arg |-> "", out |-> <<>>, panic |-> FALSE, late |-> FALSE]

Ev(op, p) == [NoEv EXCEPT !.op = op, !.p = p]

\* DialTimeout(network, address, db, password, timeout, size) returned a
\* client: the channel was filled with size nils, one connection was
\* taken, dialed and put back
Init ==
    /\ \E in \in DialInputs :
         LET rd == [size |-> ClampSize(in.size), db |-> ClampDb(in.db),
                    password |-> in.password]
             oc == openConnectionOn(rd, "ok")
         IN /\ r = rd
            /\ conns = [i \in 1..(rd.size + Cardinality(Callers)) |-> IF i = 1 THEN oc.cr ELSE Free]
            /\ pool = activeConnection([i \in 1..(rd.size - 1) |-> Nil], 1)
    /\ call = [p \in Callers |-> IdleCall]
    /\ pipe = [p \in Callers |-> NoPipe]
    /\ srv = [p \in Callers |-> NoSrv]
    /\ tx = [p \in Callers |-> NoTx]
    /\ ps = [p \in Callers |-> NoSub]
    /\ connPool = NewConnPool(0)
    /\ wire = NoWire
    /\ prevEOF = FALSE
    /\ ev = NoEv

\* variant: every error is taken for io.EOF
IsEOF_any(o) == o # "ok"

\* ---- Redis.SendCommand (ordinary command call) --------------------------
\* err != io.EOF decides between returning and redialing
IsEOF(o) == o = "eof"

\* a run of the body is an observation record plus cs, the connections,
\* and dc, the argument of the deferred call
Fail(x) == [x EXCEPT !.res = NoReply, !.err = TRUE]
Sent(x, s) ==
    [x EXCEPT !.cs[x.c] = s.cr, !.ns = @ + 1, !.env = @ \/ s.env,
              !.nx = @ + (IF s.out = "ok" /\ s.cr.st = "open" THEN 1 ELSE 0)]
Rcvd(x, s) == [x EXCEPT !.cs[x.c] = s.cr, !.nr = @ + 1, !.env = @ \/ s.env]

\* c, err = r.openConnection() after io.EOF on connection x.c: the local c
\* is overwritten; the deferred call still refers to x.dc
Redialed(x) ==
    LET kept == IF x.c = x.dc THEN [x.cs EXCEPT ![x.c].eof = TRUE]
                ELSE [x.cs EXCEPT ![x.c] = Free]
        lost == IF x.c = x.dc THEN 0 ELSE 1
    IN { LET oc == openConnection(kept, o)
         IN [x EXCEPT !.cs = oc.cs, !.c = oc.c, !.nd = @ + 1, !.err = oc.err,
                      !.dfail = @ \/ oc.err,
                      !.drop = @ + lost + oc.drop] : o \in DialOutcomes(kept) }

\* if err = c.SendCommand(args...); err != nil { return nil, err }
Resend(x, p) ==
    { IF s.out = "ok" THEN Sent(x, s) ELSE Fail(Sent(x, s))
        : s \in Send(x.cs[x.c], CmdReply(p)) }

\* return c.RecvReply()
FinalRecv(x) ==
    { IF s.out = "ok" THEN [Rcvd(x, s) EXCEPT !.res = s.rp] ELSE Fail(Rcvd(x, s))
        : s \in Recv(x.cs[x.c]) }

\* rp, err := c.RecvReply() and its error handling
RecvStage(x, p) ==
    UNION { IF s.out = "ok" THEN {[Rcvd(x, s) EXCEPT !.res = s.rp]}
            ELSE IF ~IsEOF(s.out) THEN {Fail(Rcvd(x, s))}
            ELSE UNION { IF z.err THEN {Fail(z)}
                         ELSE UNION { IF w.err THEN {w} ELSE FinalRecv(w)
                                        : w \in Resend(z, p) }
                           : z \in Redialed([Rcvd(x, s) EXCEPT !.rEOF = (s.out = "eof")]) }
              : s \in Recv(x.cs[x.c]) }

\* c.SendCommand(args...) and its error handling, then the receive
SendStage(x, p) ==
    UNION { IF s.out = "ok" THEN RecvStage(Sent(x, s), p)
            ELSE IF ~IsEOF(s.out) THEN {Fail(Sent(x, s))}
            ELSE UNION { IF z.err THEN {Fail(z)}
                         ELSE UNION { IF w.err THEN {w} ELSE RecvStage(w, p)
                                        : w \in Resend(z, p) }
                           : z \in Redialed([Sent(x, s) EXCEPT !.sEOF = (s.out = "eof")]) }
              : s \in Send(x.cs[x.c], CmdReply(p)) }

\* the observation a run leaves
Seen(x) == [f \in DOMAIN NoEv |-> x[f]]

\* c, err := r.getConnection(); defer r.activeConnection(c)
\* the argument of the deferred call is evaluated here;
\* if err != nil { return nil, err }
SC_Get(p) ==
    /\ call[p].pc = "idle"
    /\ pool # <<>>
    /\ \E o \in GetOutcomes :
         LET g == getConnection(o)
             h == Head(pool)
             pre == prevEOF /\ (h = Nil \/ conns[h].st = "open" \/ conns[h].eof)
         IN /\ pool' = g.pl
            /\ conns' = g.cs
            /\ call' = [call EXCEPT ![p] =
                          [pc |-> IF g.err THEN "ret" ELSE "got",
                           c |-> g.c, dc |-> g.c, pre |-> pre, eof |-> FALSE]]
            /\ ev' = [Ev("SC_Get", p) EXCEPT !.c = g.c, !.err = g.err, !.dfail = g.err,
                                             !.drop = g.drop, !.pre = pre]
    /\ UNCHANGED <<wire, connPool, ps, srv, tx, r, pipe, prevEOF>>

\* the rest of the body, up to the return statement
SC_Body(p) ==
    /\ call[p].pc = "got"
    /\ \E y \in SendStage([Ev("SC_Body", p) EXCEPT !.c = call[p].c, !.pre = call[p].pre]
                            @@ [cs |-> conns, dc |-> call[p].dc], p) :
         /\ conns' = y.cs
         /\ call' = [call EXCEPT ![p].pc = "ret", ![p].c = y.c,
                                  ![p].eof = y.sEOF \/ y.rEOF]
         /\ ev' = Seen(y)
    /\ UNCHANGED <<wire, connPool, ps, srv, tx, r, pool, pipe, prevEOF>>

\* the deferred r.activeConnection(c) runs, then the call returns; the
\* connection the local c refers to is referred to by nothing afterwards
SC_Return(p) ==
    LET cl == call[p]
        orphan == cl.c # Nil /\ cl.c # cl.dc
    IN /\ cl.pc = "ret"
       /\ Len(pool) < r.size
       /\ pool' = activeConnection(pool, cl.dc)
       /\ conns' = IF orphan THEN [conns EXCEPT ![cl.c] = Free] ELSE conns
       /\ call' = [call EXCEPT ![p] = IdleCall]
       /\ prevEOF' = cl.eof
       /\ ev' = [Ev("SC_Return", p) EXCEPT !.c = cl.dc, !.drop = IF orphan THEN 1 ELSE 0]
       /\ UNCHANGED <<wire, connPool, ps, srv, tx, r, pipe>>

\* ---- Pipelined ----------------------------------------------------------
\* Redis.Pipelining: c, err := r.getConnection(); if err != nil { return nil, err }
Pipelining(p) ==
    /\ call[p].pc = "idle"
    /\ pool # <<>>
    /\ \E o \in GetOutcomes :
         LET g == getConnection(o)
         IN /\ pool' = g.pl
            /\ conns' = g.cs
            /\ ev' = [Ev("Pipelining", p) EXCEPT !.c = g.c, !.err = g.err, !.drop = g.drop]
            /\ IF g.err
               THEN UNCHANGED <<call, pipe>>
               ELSE /\ call' = [call EXCEPT ![p].pc = "pipe"]
                    /\ pipe' = [pipe EXCEPT ![p] = [NoPipe EXCEPT !.conn = g.c]]
    /\ UNCHANGED <<wire, connPool, ps, srv, tx, r, prevEOF>>

\* variant: p.times is incremented whatever the send returned
P_Command_always(p) ==
    /\ call[p].pc = "pipe"
    /\ pipe[p].n < MaxCmds
    /\ \E s \in Send(conns[pipe[p].conn], PipeReply(pipe[p].n + 1)) :
         /\ conns' = [conns EXCEPT ![pipe[p].conn] = s.cr]
         /\ pipe' = [pipe EXCEPT ![p] =
                       IF s.out = "ok" THEN [@ EXCEPT !.times = @ + 1, !.n = @ + 1]
                       ELSE [@ EXCEPT !.times = @ + 1]]
         /\ ev' = [Ev("Command", p) EXCEPT !.c = pipe[p].conn, !.err = s.out # "ok",
                                           !.io = s.out # "ok",
                                           !.t0 = pipe[p].times, !.m0 = pipe[p].m]
    /\ UNCHANGED <<wire, connPool, ps, srv, tx, r, pool, call, prevEOF>>

\* Pipelined.Command: err := p.conn.SendCommand(args2...); if err == nil { p.times++ }
P_Command(p) ==
    /\ call[p].pc = "pipe"
    /\ pipe[p].n < MaxCmds
    /\ \E s \in Send(conns[pipe[p].conn], PipeReply(pipe[p].n + 1)) :
         /\ conns' = [conns EXCEPT ![pipe[p].conn] = s.cr]
         /\ pipe' = [pipe EXCEPT ![p] =
                       IF s.out = "ok" THEN [@ EXCEPT !.times = @ + 1, !.n = @ + 1] ELSE @]
         /\ ev' = [Ev("Command", p) EXCEPT !.c = pipe[p].conn, !.err = s.out # "ok",
                                           !.io = s.out # "ok",
                                           !.t0 = pipe[p].times, !.m0 = pipe[p].m]
    /\ UNCHANGED <<wire, connPool, ps, srv, tx, r, pool, call, prevEOF>>

\* variant: p.times is not decremented
Receive_nodec(h, cr) ==
    { [h |-> IF s.out = "ok" THEN [h EXCEPT !.m = @ + 1] ELSE h,
       cr |-> s.cr, rp |-> s.rp, err |-> s.out # "ok", io |-> s.out # "ok"] : s \in Recv(cr) }

\* Pipelined.Receive: rp, err := p.conn.RecvReply(); if err == nil { p.times-- }
Receive(h, cr) ==
    { [h |-> IF s.out = "ok" THEN [h EXCEPT !.times = @ - 1, !.m = @ + 1] ELSE h,
       cr |-> s.cr, rp |-> s.rp, err |-> s.out # "ok", io |-> s.out # "ok"] : s \in Recv(cr) }

P_Receive(p) ==
    /\ call[p].pc = "pipe"
    /\ \E x \in Receive(pipe[p], conns[pipe[p].conn]) :
         /\ conns' = [conns EXCEPT ![pipe[p].conn] = x.cr]
         /\ pipe' = [pipe EXCEPT ![p] = x.h]
         /\ ev' = [Ev("Receive", p) EXCEPT !.c = pipe[p].conn, !.err = x.err, !.res = x.rp,
                                           !.io = x.io,
                                           !.reads = 1,
                                           !.t0 = pipe[p].times, !.m0 = pipe[p].m]
    /\ UNCHANGED <<wire, connPool, ps, srv, tx, r, pool, call, prevEOF>>

\* the loop of Pipelined.ReceiveAll from index i on; a run is the handle h,
\* the connection cr, the slice rps, the error and the RecvReply calls made
RECURSIVE ReceiveLoop(_, _, _)
ReceiveLoop(x, i, num) ==
    IF i >= num THEN {x}
    ELSE UNION { IF y.err
                 THEN {[x EXCEPT !.h = y.h, !.cr = y.cr, !.err = TRUE, !.io = y.io,
                                 !.reads = @ + 1]}
                 ELSE ReceiveLoop([x EXCEPT !.h = y.h, !.cr = y.cr, !.reads = @ + 1,
                                            !.rps[i + 1] = y.rp], i + 1, num)
                   : y \in Receive(x.h, x.cr) }

\* Pipelined.ReceiveAll
ReceiveAll(h, cr) ==
    IF h.times <= 0
    THEN {[h |-> h, cr |-> cr, rps |-> <<>>, err |-> FALSE, io |-> FALSE, reads |-> 0]}
    ELSE ReceiveLoop([h |-> h, cr |-> cr, rps |-> [j \in 1..h.times |-> NoReply],
                      err |-> FALSE, io |-> FALSE, reads |-> 0], 0, h.times)

P_ReceiveAll(p) ==
    /\ call[p].pc = "pipe"
    /\ \E x \in ReceiveAll(pipe[p], conns[pipe[p].conn]) :
         /\ conns' = [conns EXCEPT ![pipe[p].conn] = x.cr]
         /\ pipe' = [pipe EXCEPT ![p] = x.h]
         /\ ev' = [Ev("ReceiveAll", p) EXCEPT !.c = pipe[p].conn, !.err = x.err,
                                              !.io = x.io,
                                              !.rps = x.rps, !.reads = x.reads,
                                              !.t0 = pipe[p].times, !.m0 = pipe[p].m]
    /\ UNCHANGED <<wire, connPool, ps, srv, tx, r, pool, call, prevEOF>>

\* Pipelined.Close: defer p.redis.activeConnection(p.conn); p.times = 0;
\* return p.conn.Conn.Close()
PipelinedClose(h, cs, pl) ==
    [cs |-> [cs EXCEPT ![h.conn] = ConnClose(@)],
     pl |-> activeConnection(pl, h.conn)]

P_Close(p) ==
    /\ call[p].pc = "pipe"
    /\ Len(pool) < r.size
    /\ LET x == PipelinedClose(pipe[p], conns, pool)
       IN /\ conns' = x.cs
          /\ pool' = x.pl
    /\ pipe' = [pipe EXCEPT ![p] = NoPipe]
    /\ call' = [call EXCEPT ![p] = IdleCall]
    /\ ev' = [Ev("Pipelined.Close", p) EXCEPT !.c = pipe[p].conn, !.t0 = pipe[p].times,
                                               !.m0 = pipe[p].m]
    /\ UNCHANGED <<wire, connPool, ps, srv, tx, r, prevEOF>>

\* variant: the connection is taken from the channel when it holds one
TransactionConn_pool(o) ==
    LET oc == openConnection(conns, o)
    IN IF pool = <<>>
       THEN [c |-> oc.c, err |-> oc.err, cs |-> oc.cs, drop |-> oc.drop, pl |-> pool]
       ELSE getConnection(o)

\* ---- Transaction --------------------------------------------------------
\* Redis.Transaction: c, err := r.openConnection(); the channel is not touched
TransactionConn(o) ==
    LET oc == openConnection(conns, o)
    IN [c |-> oc.c, err |-> oc.err, cs |-> oc.cs, drop |-> oc.drop, pl |-> pool]

\* variant: io.EOF from the send is answered with a dial and a resend
Roundtrip_redial(cs, c, sv, cmd) ==
    UNION { UNION { IF s.out = "eof" /\ FreeIds(cs) # {}
                    THEN LET oc == openConnection([cs EXCEPT ![c] = s.cr], "ok")
                         IN {[cs |-> [oc.cs EXCEPT ![oc.c] = ConnSend(@, a.rp)], c |-> oc.c,
                              sv |-> a.sv, rp |-> NoReply, io |-> FALSE]}
                    ELSE IF s.out # "ok"
                    THEN {[cs |-> [cs EXCEPT ![c] = s.cr], c |-> c, sv |-> NoSrv,
                           rp |-> NoReply, io |-> TRUE]}
                    ELSE { [cs |-> [cs EXCEPT ![c] = v.cr], c |-> c,
                            sv |-> IF v.cr.st = "open" THEN a.sv ELSE NoSrv,
                            rp |-> v.rp, io |-> v.out # "ok"] : v \in Recv(s.cr) }
                      : s \in Send(cs[c], a.rp) } : a \in Answers(sv, cmd) }

\* one command on the handle's connection c: conn.SendCommand(cmd), then
\* conn.RecvReply() unless the send failed. cs are the connections and sv
\* the server's state afterwards (a connection that is no longer open has
\* none), rp the reply read, io whether the send or the receive failed
Roundtrip(cs, c, sv, cmd) ==
    UNION { UNION { IF s.out # "ok"
                    THEN {[cs |-> [cs EXCEPT ![c] = s.cr], c |-> c, sv |-> NoSrv,
                           rp |-> NoReply, io |-> TRUE]}
                    ELSE { [cs |-> [cs EXCEPT ![c] = v.cr], c |-> c,
                            sv |-> IF v.cr.st = "open" THEN a.sv ELSE NoSrv,
                            rp |-> v.rp, io |-> v.out # "ok"] : v \in Recv(s.cr) }
                      : s \in Send(cs[c], a.rp) } : a \in Answers(sv, cmd) }

\* Transaction.multi: send MULTI, read one reply, return the I/O error
multi(cs, c, sv) ==
    { [x EXCEPT !.err = x.io] : x \in { y @@ [err |-> FALSE] : y \in Roundtrip(cs, c, sv, "MULTI") } }

\* Redis.Transaction and newTransaction: on an error of multi the
\* connection is closed and no handle is returned
Transaction(p) ==
    /\ call[p].pc = "idle"
    /\ \E o \in DialOutcomes(conns) :
         LET g == TransactionConn(o)
         IN /\ pool' = g.pl
            /\ IF g.err
               THEN /\ conns' = g.cs
                    /\ ev' = [Ev("Transaction", p) EXCEPT !.err = TRUE, !.drop = g.drop]
                    /\ UNCHANGED <<call, srv, tx>>
               ELSE \E x \in multi(g.cs, g.c, NoSrv) :
                      IF x.err
                      THEN /\ conns' = [x.cs EXCEPT ![g.c] = Free]
                           /\ ev' = [Ev("Transaction", p) EXCEPT !.err = TRUE, !.io = TRUE]
                           /\ UNCHANGED <<call, srv, tx>>
                      ELSE /\ conns' = x.cs
                           /\ ev' = [Ev("Transaction", p) EXCEPT !.c = g.c, !.res = x.rp]
                           /\ call' = [call EXCEPT ![p] =
                                         [IdleCall EXCEPT !.pc = "txn", !.c = x.c]]
                           /\ srv' = [srv EXCEPT ![p] = x.sv]
                           /\ tx' = [tx EXCEPT ![p] = [NoTx EXCEPT !.pure = TRUE]]
    /\ UNCHANGED <<wire, connPool, ps, r, pipe, prevEOF>>

\* the observation of a method of the handle of p that ran as x
TxEv(op, p, x) ==
    [Ev(op, p) EXCEPT !.c = x.c, !.res = x.rp, !.io = x.io, !.err = x.err,
                      !.pure = tx[p].pure, !.cmds = tx[p].cmds,
                      !.q = Len(srv[p].queue), !.trip = srv[p].tripped]

\* variant: the reply is read and not looked at
TransactionCommand_unchecked(cs, c, sv, cmd) ==
    { [x EXCEPT !.err = x.io]
        : x \in { y @@ [err |-> FALSE] : y \in Roundtrip(cs, c, sv, cmd) } }

\* variant: any Status reply is taken for QUEUED
TransactionCommand_anystatus(cs, c, sv, cmd) ==
    { [x EXCEPT !.err = x.io \/ StatusValue(x.rp).err]
        : x \in { y @@ [err |-> FALSE] : y \in Roundtrip(cs, c, sv, cmd) } }

\* Transaction.Command: send, read one reply, s, err := rp.StatusValue(),
\* if s != "QUEUED" { return errors.New(s) }
TransactionCommand(cs, c, sv, cmd) ==
    { [x EXCEPT !.err = x.io \/ StatusValue(x.rp).err \/ StatusValue(x.rp).v # "QUEUED"]
        : x \in { y @@ [err |-> FALSE] : y \in Roundtrip(cs, c, sv, cmd) } }

T_Command(p) ==
    /\ call[p].pc = "txn"
    /\ Len(srv[p].queue) < MaxQueue
    /\ tx[p].acks < MaxQueue
    /\ \E cmd \in CmdKinds : \E x \in TransactionCommand(conns, call[p].c, srv[p], cmd) :
         /\ conns' = x.cs
         /\ srv' = [srv EXCEPT ![p] = x.sv]
         /\ call' = [call EXCEPT ![p].c = x.c]
         /\ tx' = [tx EXCEPT ![p] =
                     IF x.err THEN [@ EXCEPT !.pure = FALSE]
                     ELSE [@ EXCEPT !.acks = @ + 1, !.cmds = Append(@, cmd)]]
         /\ ev' = TxEv("Transaction.Command", p, x)
    /\ UNCHANGED <<wire, connPool, ps, r, pool, pipe, prevEOF>>

\* Transaction.Watch, UnWatch and Discard: send the command, read one
\* reply, return the I/O error
TransactionControl(cs, c, sv, cmd) ==
    { [x EXCEPT !.err = x.io] : x \in { y @@ [err |-> FALSE] : y \in Roundtrip(cs, c, sv, cmd) } }

\* a method of the handle other than Command ran as x
TxStep(op, p, x) ==
    /\ conns' = x.cs
    /\ srv' = [srv EXCEPT ![p] = x.sv]
    /\ call' = [call EXCEPT ![p].c = x.c]
    /\ tx' = [tx EXCEPT ![p].pure = FALSE]
    /\ ev' = TxEv(op, p, x)
    /\ UNCHANGED <<wire, connPool, ps, r, pool, pipe, prevEOF>>

T_Watch(p) ==
    /\ call[p].pc = "txn"
    /\ \E x \in TransactionControl(conns, call[p].c, srv[p], "WATCH") :
         TxStep("Transaction.Watch", p, x)

T_UnWatch(p) ==
    /\ call[p].pc = "txn"
    /\ Len(srv[p].queue) < MaxQueue
    /\ \E x \in TransactionControl(conns, call[p].c, srv[p], "UNWATCH") :
         TxStep("Transaction.UnWatch", p, x)

T_Discard(p) ==
    /\ call[p].pc = "txn"
    /\ \E x \in TransactionControl(conns, call[p].c, srv[p], "DISCARD") :
         TxStep("Transaction.Discard", p, x)

\* variant: Exec refuses a Multi whose length is not the number of QUEUED
\* acknowledgments
Exec_counted(cs, c, sv) ==
    { [x EXCEPT !.err = x.io \/ MultiValue(x.rp).err \/ Len(MultiValue(x.rp).v) # Len(sv.queue),
                !.rps = IF x.io THEN <<>> ELSE MultiValue(x.rp).v]
        : x \in { y @@ [err |-> FALSE, rps |-> <<>>] : y \in Roundtrip(cs, c, sv, "EXEC") } }

\* Transaction.Exec: send EXEC, read one reply, return rp.MultiValue()
Exec(cs, c, sv) ==
    { [x EXCEPT !.err = x.io \/ MultiValue(x.rp).err,
                !.rps = IF x.io THEN <<>> ELSE MultiValue(x.rp).v]
        : x \in { y @@ [err |-> FALSE, rps |-> <<>>] : y \in Roundtrip(cs, c, sv, "EXEC") } }

T_Exec(p) ==
    /\ call[p].pc = "txn"
    /\ \E x \in Exec(conns, call[p].c, srv[p]) :
         /\ conns' = x.cs
         /\ srv' = [srv EXCEPT ![p] = x.sv]
         /\ call' = [call EXCEPT ![p].c = x.c]
         /\ tx' = [tx EXCEPT ![p].pure = FALSE]
         /\ ev' = [TxEv("Transaction.Exec", p, x) EXCEPT !.rps = x.rps]
    /\ UNCHANGED <<wire, connPool, ps, r, pool, pipe, prevEOF>>

\* another client modifies a key the connection of p watches
Touch(p) ==
    /\ call[p].pc = "txn"
    /\ srv[p].watching /\ ~srv[p].tripped
    /\ srv' = [srv EXCEPT ![p].tripped = TRUE]
    /\ ev' = Ev("Touch", p)
    /\ UNCHANGED <<wire, connPool, ps, tx, r, pool, conns, call, pipe, prevEOF>>

\* Transaction.Close: return t.conn.Conn.Close(); pl is the channel and cr
\* the connection afterwards
TransactionClose(cr, pl) == [cr |-> ConnClose(cr), pl |-> pl]

\* the handle's connection is referred to by nothing after Close unless
\* Close put it into the channel
T_Close(p) ==
    /\ call[p].pc = "txn"
    /\ LET c == call[p].c
           x == TransactionClose(conns[c], pool)
           pooled == \E i \in 1..Len(x.pl) : x.pl[i] = c
       IN /\ pool' = x.pl
          /\ conns' = [conns EXCEPT ![c] = IF pooled THEN x.cr ELSE Free]
          /\ ev' = [Ev("Transaction.Close", p) EXCEPT
                      !.c = c, !.drop = IF ~pooled /\ x.cr.st # "closed" THEN 1 ELSE 0]
    /\ call' = [call EXCEPT ![p] = IdleCall]
    /\ srv' = [srv EXCEPT ![p] = NoSrv]
    /\ tx' = [tx EXCEPT ![p] = NoTx]
    /\ UNCHANGED <<wire, connPool, ps, r, pipe, prevEOF>>

\* variant: the connection is taken from the channel when it holds one
PubSubConn_pool(o) ==
    LET oc == openConnection(conns, o)
    IN IF pool = <<>>
       THEN [c |-> oc.c, err |-> oc.err, cs |-> oc.cs, drop |-> oc.drop, pl |-> pool]
       ELSE getConnection(o)

\* ---- PubSub --------------------------------------------------------------
\* newPubSub: c, err := r.openConnection(); the channel is not touched
PubSubConn(o) ==
    LET oc == openConnection(conns, o)
    IN [c |-> oc.c, err |-> oc.err, cs |-> oc.cs, drop |-> oc.drop, pl |-> pool]

\* newPubSub: the handle starts with two empty maps
newPubSub == [NoSub EXCEPT !.Channels = {}, !.Patterns = {}]

\* Redis.PubSub
PubSub(p) ==
    /\ call[p].pc = "idle"
    /\ \E o \in DialOutcomes(conns) :
         LET g == PubSubConn(o)
         IN /\ pool' = g.pl
            /\ conns' = g.cs
            /\ IF g.err
               THEN /\ ev' = [Ev("PubSub", p) EXCEPT !.err = TRUE, !.drop = g.drop]
                    /\ UNCHANGED <<call, ps>>
               ELSE /\ ev' = [Ev("PubSub", p) EXCEPT !.c = g.c]
                    /\ call' = [call EXCEPT ![p] = [IdleCall EXCEPT !.pc = "sub", !.c = g.c]]
                    /\ ps' = [ps EXCEPT ![p] = newPubSub]
    /\ UNCHANGED <<wire, connPool, srv, tx, r, pipe, prevEOF>>

\* variant: the acknowledgment is read by the call that sent the command
PubSubSend_read(cr, sv, cmd, name) ==
    LET a == SubAnswer(sv, cmd, name)
    IN UNION { IF s.out # "ok"
               THEN {[cr |-> s.cr, sv |-> NoSrv, err |-> TRUE]}
               ELSE { [cr |-> v.cr, sv |-> IF v.cr.st = "open" THEN a.sv ELSE NoSrv,
                       err |-> v.out # "ok"] : v \in Recv(s.cr) }
                 : s \in Send(cr, a.rp) }

\* Subscribe, PSubscribe, UnSubscribe, PUnSubscribe with one name:
\* p.conn.SendCommand(cmd, name) and nothing else. cr is the connection
\* and sv the server's state afterwards, err the error returned
PubSubSend(cr, sv, cmd, name) ==
    LET a == SubAnswer(sv, cmd, name)
    IN { [cr |-> s.cr, sv |-> IF s.cr.st = "open" THEN a.sv ELSE NoSrv,
          err |-> s.out # "ok"] : s \in Send(cr, a.rp) }

\* the step of a method of the handle that sends cmd name
PS_Send(op, p, cmd, name) ==
    /\ Len(conns[call[p].c].inbox) < MaxFrames
    /\ \E x \in PubSubSend(conns[call[p].c], srv[p], cmd, name) :
         /\ conns' = [conns EXCEPT ![call[p].c] = x.cr]
         /\ srv' = [srv EXCEPT ![p] = x.sv]
         /\ ps' = [ps EXCEPT ![p].first =
                     IF cmd = "SUBSCRIBE" /\ @ = "" /\ conns[call[p].c].inbox = <<>>
                        /\ ~x.err
                     THEN name ELSE @]
         /\ ev' = [Ev(op, p) EXCEPT !.c = call[p].c, !.err = x.err, !.io = x.err,
                                    !.arg = name]
    /\ UNCHANGED <<wire, connPool, tx, r, pool, call, pipe, prevEOF>>

PS_Subscribe(p) ==
    /\ call[p].pc = "sub"
    /\ \E n \in ChanNames : PS_Send("PubSub.Subscribe", p, "SUBSCRIBE", n)

PS_PSubscribe(p) ==
    /\ call[p].pc = "sub"
    /\ \E n \in PatNames : PS_Send("PubSub.PSubscribe", p, "PSUBSCRIBE", n)

PS_UnSubscribe(p) ==
    /\ call[p].pc = "sub"
    /\ \E n \in ChanNames : PS_Send("PubSub.UnSubscribe", p, "UNSUBSCRIBE", n)

PS_PUnSubscribe(p) ==
    /\ call[p].pc = "sub"
    /\ \E n \in PatNames : PS_Send("PubSub.PUnSubscribe", p, "PUNSUBSCRIBE", n)

\* the ways PubSub.Recv ends after RecvReply: h is the handle afterwards
RecvPanic(h) == [h |-> h, out |-> <<>>, err |-> TRUE, panic |-> TRUE]
RecvErr(h) == [h |-> h, out |-> <<>>, err |-> TRUE, panic |-> FALSE]
RecvOk(h, out) == [h |-> h, out |-> out, err |-> FALSE, panic |-> FALSE]

\* variant: every acknowledgment is recorded in Channels
RecvAck_onemap(h, rp, command, isPattern) ==
    LET name == StringValue(rp.m[2])
        h1 == [h EXCEPT !.Channels = IF command \in {"subscribe", "psubscribe"}
                                      THEN @ \cup {name.v} ELSE @ \ {name.v}]
        number == IntegerValue(rp.m[3])
    IN IF Len(rp.m) < 2 THEN RecvPanic(h)
       ELSE IF name.err THEN RecvErr(h)
       ELSE IF Len(rp.m) < 3 THEN RecvPanic(h1)
       ELSE IF number.err THEN RecvErr(h1)
       ELSE RecvOk(h1, <<command, name.v, FormatInt(number.v)>>)

\* the cases "psubscribe", "punsubscribe" and "subscribe", "unsubscribe"
\* of PubSub.Recv: the map is updated from Multi[1], comparing command as
\* it was received, before Multi[2] is read
RecvAck(h, rp, command, isPattern) ==
    LET name == StringValue(rp.m[2])
        h1 == IF isPattern
              THEN [h EXCEPT !.Patterns = IF command = "psubscribe"
                                          THEN @ \cup {name.v} ELSE @ \ {name.v}]
              ELSE [h EXCEPT !.Channels = IF command = "subscribe"
                                          THEN @ \cup {name.v} ELSE @ \ {name.v}]
        number == IntegerValue(rp.m[3])
    IN IF Len(rp.m) < 2 THEN RecvPanic(h)
       ELSE IF name.err THEN RecvErr(h)
       ELSE IF Len(rp.m) < 3 THEN RecvPanic(h1)
       ELSE IF number.err THEN RecvErr(h1)
       ELSE RecvOk(h1, <<command, name.v, FormatInt(number.v)>>)

\* the cases "pmessage" (n = 4) and "message" (n = 3) of PubSub.Recv:
\* Multi[1] .. Multi[n-1] are read in turn
RecvMessage(h, rp, command, n) ==
    LET bad == {i \in 2..n : i > Len(rp.m) \/ StringValue(rp.m[i]).err}
        i0 == CHOOSE i \in bad : \A j \in bad : i <= j
    IN IF bad = {}
       THEN RecvOk(h, <<command>> \o [i \in 1..(n - 1) |-> StringValue(rp.m[i + 1]).v])
       ELSE IF i0 > Len(rp.m) THEN RecvPanic(h) ELSE RecvErr(h)

\* PubSub.Recv after p.conn.RecvReply() returned rp
PubSubRecv(h, rp) ==
    IF Len(rp.m) < 1 THEN RecvPanic(h)
    ELSE LET command == StringValue(rp.m[1])
             lower == ToLower(command.v)
         IN IF command.err THEN RecvErr(h)
            ELSE IF lower \in {"psubscribe", "punsubscribe"}
            THEN RecvAck(h, rp, command.v, TRUE)
            ELSE IF lower \in {"subscribe", "unsubscribe"}
            THEN RecvAck(h, rp, command.v, FALSE)
            ELSE IF lower = "pmessage" THEN RecvMessage(h, rp, command.v, 4)
            ELSE IF lower = "message" THEN RecvMessage(h, rp, command.v, 3)
            ELSE RecvErr(h)

\* PubSub.Recv: blocks while the connection is open and nothing is buffered
PS_Recv(p) ==
    /\ call[p].pc = "sub"
    /\ \E s \in Recv(conns[call[p].c]) :
         /\ conns' = [conns EXCEPT ![call[p].c] = s.cr]
         /\ srv' = [srv EXCEPT ![p] = IF s.cr.st = "open" THEN @ ELSE NoSrv]
         /\ IF s.out # "ok"
            THEN /\ ps' = [ps EXCEPT ![p].first = ""]
                 /\ ev' = [Ev("PubSub.Recv", p) EXCEPT !.c = call[p].c, !.err = TRUE,
                                                       !.io = TRUE]
            ELSE LET x == PubSubRecv(ps[p], s.rp)
                 IN /\ ps' = [ps EXCEPT ![p] = [x.h EXCEPT !.first = ""]]
                    /\ ev' = [Ev("PubSub.Recv", p) EXCEPT
                                !.c = call[p].c, !.err = x.err, !.out = x.out,
                                !.panic = x.panic]
    /\ UNCHANGED <<wire, connPool, tx, r, pool, call, pipe, prevEOF>>

\* the replies a server can write to the handle's connection that are no
\* push frame: replies that are no Multi (an Error such as the refusal of a
\* connection, a Status), the null and the empty Multi,
\* frames with too few elements, and frames with an element of another type
PushRp(elems) == MultiRp("push", elems)
OddFrames ==
    { ErrorRp("push"), StatusOK("push"),
      NullMulti("push"), PushRp(<<>>),
      PushRp(<<BulkRp("subscribe")>>),
      PushRp(<<BulkRp("subscribe"), BulkRp("b")>>),
      PushRp(<<BulkRp("message"), BulkRp("a")>>),
      PushRp(<<BulkRp("pmessage"), BulkRp("a"), BulkRp("a")>>),
      PushRp(<<BulkRp("subscribe"), BulkRp("b"), BulkRp("one")>>),
      PushRp(<<BulkRp("pong"), BulkRp("a"), IntRp(1)>>) }

\* the server writes such a reply to the connection of the handle
S_Push(p) ==
    /\ call[p].pc = "sub"
    /\ conns[call[p].c].st = "open"
    /\ Len(conns[call[p].c].inbox) < MaxFrames
    /\ \E f \in OddFrames :
         conns' = [conns EXCEPT ![call[p].c].inbox = Append(@, f)]
    /\ ev' = [Ev("push", p) EXCEPT !.c = call[p].c]
    /\ UNCHANGED <<wire, connPool, ps, srv, tx, r, pool, call, pipe, prevEOF>>

\* another client publishes on a channel: the server pushes the frames to
\* the handle's connection
Publish(p) ==
    /\ call[p].pc = "sub"
    /\ conns[call[p].c].st = "open"
    /\ \E channel \in ChanNames, message \in Payloads :
         \E fs \in Pushed(srv[p], channel, message) :
            /\ fs # <<>>
            /\ Len(conns[call[p].c].inbox) + Len(fs) <= MaxFrames
            /\ conns' = [conns EXCEPT ![call[p].c].inbox = @ \o fs]
            /\ ev' = [Ev("Publish", p) EXCEPT !.c = call[p].c, !.arg = channel]
    /\ UNCHANGED <<wire, connPool, ps, srv, tx, r, pool, call, pipe, prevEOF>>

\* PubSub.Close: return p.conn.Conn.Close(); pl is the channel and cr the
\* connection afterwards
PubSubClose(cr, pl) == [cr |-> ConnClose(cr), pl |-> pl]

PS_Close(p) ==
    /\ call[p].pc = "sub"
    /\ LET c == call[p].c
           x == PubSubClose(conns[c], pool)
           pooled == \E i \in 1..Len(x.pl) : x.pl[i] = c
       IN /\ pool' = x.pl
          /\ conns' = [conns EXCEPT ![c] = IF pooled THEN x.cr ELSE Free]
          /\ ev' = [Ev("PubSub.Close", p) EXCEPT
                      !.c = c, !.drop = IF ~pooled /\ x.cr.st # "closed" THEN 1 ELSE 0]
    /\ call' = [call EXCEPT ![p] = IdleCall]
    /\ srv' = [srv EXCEPT ![p] = NoSrv]
    /\ ps' = [ps EXCEPT ![p] = NoSub]
    /\ UNCHANGED <<wire, connPool, tx, r, pipe, prevEOF>>

\* ---- ConnPool: Get, Put, Close -------------------------------------------
\* the variables no method of ConnPool touches
hvars == <<wire, ps, srv, tx, r, pool, conns, call, pipe, prevEOF>>

\* Connection.Close
ConnectionClose(cn, c) == [cn EXCEPT ![c] = "closed"]

\* ConnPool.Get from p.mutex.Lock() on: active++; on a closed pool it
\* returns the error with the mutex still locked; otherwise it removes the
\* back of idle, or unlocks and goes on to p.Dial()
Get(q) ==
    LET q1 == [q EXCEPT !.locked = TRUE, !.active = @ + 1]
    IN IF q1.closed
       THEN [q |-> q1, c |-> Nil, err |-> TRUE, dial |-> FALSE]
       ELSE IF Len(q1.idle) > 0
       THEN [q |-> [q1 EXCEPT !.idle = SubSeq(@, 1, Len(@) - 1), !.locked = FALSE],
             c |-> q1.idle[Len(q1.idle)], err |-> FALSE, dial |-> FALSE]
       ELSE [q |-> [q1 EXCEPT !.locked = FALSE], c |-> Nil, err |-> FALSE, dial |-> TRUE]

\* variant: on a closed pool the connection is kept as on an open one
Put_keep(q, c) ==
    LET q1 == [q EXCEPT !.active = @ - 1]
    IN IF c = Nil THEN [q |-> q1, panic |-> FALSE, drop |-> Nil]
       ELSE IF Len(q1.idle) >= q1.MaxIdle
       THEN IF q1.idle = <<>>
            THEN [q |-> q1, panic |-> TRUE, drop |-> Nil]
            ELSE [q |-> [q1 EXCEPT !.idle = Append(Tail(@), c)], panic |-> FALSE,
                  drop |-> Head(q1.idle)]
       ELSE [q |-> [q1 EXCEPT !.idle = Append(@, c)], panic |-> FALSE, drop |-> Nil]

\* ConnPool.Put between Lock and the deferred Unlock: active--; on a
\* closed pool c.Close(); else, for c # nil, the front of idle is removed
\* when idle holds MaxIdle or more (list.Remove panics on the nil Front of
\* an empty list) and c is pushed to the back. drop: the connection removed
Put(q, c) ==
    LET q1 == [q EXCEPT !.active = @ - 1]
    IN IF q1.closed
       THEN [q |-> [q1 EXCEPT !.cn = ConnectionClose(@, c)], panic |-> FALSE, drop |-> Nil]
       ELSE IF c = Nil THEN [q |-> q1, panic |-> FALSE, drop |-> Nil]
       ELSE IF Len(q1.idle) >= q1.MaxIdle
       THEN IF q1.idle = <<>>
            THEN [q |-> q1, panic |-> TRUE, drop |-> Nil]
            ELSE [q |-> [q1 EXCEPT !.idle = Append(Tail(@), c)], panic |-> FALSE,
                  drop |-> Head(q1.idle)]
       ELSE [q |-> [q1 EXCEPT !.idle = Append(@, c)], panic |-> FALSE, drop |-> Nil]

\* ConnPool.Close between Lock and the deferred Unlock: closed = true and
\* every element of idle is closed; the list keeps its elements
Close(q) ==
    [q EXCEPT !.closed = TRUE,
              !.cn = [i \in DOMAIN @ |->
                        IF \E j \in 1..Len(q.idle) : q.idle[j] = i THEN "closed" ELSE @[i]]]

\* a goroutine calls Get, Put with the connection it checked out, or Close
CP_CallGet(g) ==
    /\ ~connPool.crashed
    /\ connPool.th[g].pc = "idle" /\ connPool.th[g].c = Nil
    /\ connPool.active < MaxActive
    /\ connPool' = [connPool EXCEPT !.th[g].pc = "Get.lock", !.th[g].late = connPool.closed]
    /\ ev' = [Ev("call Get", g) EXCEPT !.late = connPool.closed]
    /\ UNCHANGED hvars

CP_CallPut(g) ==
    /\ ~connPool.crashed
    /\ connPool.th[g].pc = "idle" /\ connPool.th[g].c # Nil
    /\ connPool' = [connPool EXCEPT !.th[g].pc = "Put.lock", !.th[g].late = connPool.closed]
    /\ ev' = [Ev("call Put", g) EXCEPT !.c = connPool.th[g].c, !.late = connPool.closed]
    /\ UNCHANGED hvars

CP_CallClose(g) ==
    /\ ~connPool.crashed
    /\ connPool.th[g].pc = "idle"
    /\ connPool' = [connPool EXCEPT !.th[g].pc = "Close.lock", !.th[g].late = connPool.closed]
    /\ ev' = [Ev("call Close", g) EXCEPT !.late = connPool.closed]
    /\ UNCHANGED hvars

\* p.mutex.Lock() succeeds and Get runs up to its return or to p.Dial()
CP_Get(g) ==
    /\ ~connPool.crashed
    /\ connPool.th[g].pc = "Get.lock"
    /\ ~connPool.locked
    /\ LET x == Get(connPool)
       IN /\ connPool' = [x.q EXCEPT !.th[g] =
                             IF x.dial THEN [@ EXCEPT !.pc = "Get.dial"]
                             ELSE [NoTh EXCEPT !.c = x.c]]
          /\ ev' = IF x.dial THEN [Ev("Get to Dial", g) EXCEPT !.late = connPool.th[g].late]
                   ELSE [Ev("ConnPool.Get", g) EXCEPT !.c = x.c, !.err = x.err,
                                                      !.late = connPool.th[g].late]
    /\ UNCHANGED hvars

\* return p.Dial(): a new connection, or an error
CP_Dial(g) ==
    /\ ~connPool.crashed
    /\ connPool.th[g].pc = "Get.dial"
    /\ \E ok \in {b \in BOOLEAN : b => \E i \in 1..MaxConns : connPool.cn[i] = "free"} :
         LET c == IF ok
                  THEN CHOOSE i \in 1..MaxConns :
                         /\ connPool.cn[i] = "free"
                         /\ \A j \in 1..MaxConns : connPool.cn[j] = "free" => i <= j
                  ELSE Nil
         IN /\ connPool' = [connPool EXCEPT !.th[g] = [NoTh EXCEPT !.c = c],
                                             !.cn = IF ok THEN [@ EXCEPT ![c] = "open"] ELSE @]
            /\ ev' = [Ev("ConnPool.Get", g) EXCEPT !.c = c, !.err = ~ok,
                                                   !.late = connPool.th[g].late]
    /\ UNCHANGED hvars

\* p.mutex.Lock() succeeds and Put runs to its end; a panic ends the program
CP_Put(g) ==
    /\ ~connPool.crashed
    /\ connPool.th[g].pc = "Put.lock"
    /\ ~connPool.locked
    /\ LET x == Put(connPool, connPool.th[g].c)
       IN /\ connPool' = [x.q EXCEPT !.th[g] = NoTh, !.crashed = x.panic]
          /\ ev' = [Ev("ConnPool.Put", g) EXCEPT !.c = connPool.th[g].c, !.panic = x.panic,
                                                 !.drop = IF x.drop = Nil THEN 0 ELSE 1,
                                                 !.late = connPool.th[g].late]
    /\ UNCHANGED hvars

\* p.mutex.Lock() succeeds and Close runs to its end
CP_Close(g) ==
    /\ ~connPool.crashed
    /\ connPool.th[g].pc = "Close.lock"
    /\ ~connPool.locked
    /\ connPool' = [Close(connPool) EXCEPT !.th[g] = NoTh]
    /\ ev' = [Ev("ConnPool.Close", g) EXCEPT !.late = connPool.th[g].late]
    /\ UNCHANGED hvars

\* ---- one connection as a byte stream -------------------------------------
\* the variables the steps on the byte stream leave alone
wvars == <<connPool, ps, srv, tx, r, pool, conns, call, pipe, prevEOF, ev>>

\* the fields and values HMSet wrote to a hash (as in TestHGetAll), and the
\* server's reply to HGETALL for a hash of these pairs
WrittenPairs == << <<<<"n">>, <<"f", "o", "o">>>>, <<<<"a">>, <<"b">>>> >>
RECURSIVE HGetAllReply(_)
HGetAllReply(pairs) ==
    IF pairs = <<>> THEN WMulti(<<>>)
    ELSE WMulti(<<WBulk(Head(pairs)[1]), WBulk(Head(pairs)[2])>> \o HGetAllReply(Tail(pairs)).m)

\* the replies the server writes: every type, the nil and the empty Bulk and
\* Multi, payloads holding CR LF and protocol text, a length of two digits,
\* and Multi replies nested to depth 3 (the shape of TestEval's reply)
LongBulk == WBulk(<<"0", "1", "2", "3", "4", "5", "6", "7", "8", "9">>)
WireReplies ==
    { WStatus(<<"O", "K">>), WError(<<"E", "R", "R">>),
      WInteger(0), WInteger(-1), WInteger(10),
      WNilBulk, WBulk(<<>>), WBulk(<<"a">>), WBulk(<<"+", CR, LF, "$">>), LongBulk,
      WNilMulti, WMulti(<<>>),
      WMulti(<<WBulk(<<"a">>), WNilBulk, WBulk(<<>>)>>),
      HGetAllReply(WrittenPairs),
      WMulti(<<WBulk(<<"a">>), WBulk(<<"b">>), WNilBulk, WBulk(<<"c">>),
               WBulk(<<"a">>), WNilBulk>>),
      WMulti(<<WInteger(0), WInteger(10)>>),
      WMulti(<<WBulk(<<"a">>), WError(<<"E", "R", "R">>)>>),
      WMulti(<<WInteger(1), WInteger(2), WMulti(<<WInteger(3), WBulk(<<"H", "i", NUL>>)>>)>>),
      WMulti(<<WMulti(<<>>), WNilMulti, WStatus(<<>>)>>),
      WMulti(<<WMulti(<<WMulti(<<WBulk(CRLF), WError(<<"n", "o">>)>>), WInteger(-1)>>)>>) }

\* the arguments given to packCommand
ArgBytes == { <<>>, <<"a">>, <<CR>>, <<LF>>, <<NUL>>, <<CR, LF>>, <<"$", "1", CR, LF>>,
              <<"0", "1", "2", "3", "4", "5", "6", "7", "8", "9", "a">> }
ArgTuples == UNION {[1..n -> ArgBytes] : n \in 0..MaxArgs}

\* arbitrary bytes a peer may write
Alphabet == {"+", "-", ":", "$", "*", "1", "a", CR, LF}
Streams == UNION {[1..n -> Alphabet] : n \in 1..MaxBytes}

\* the server writes one more reply
W_Reply(rp) ==
    /\ wire.src \in {"none", "server"}
    /\ Len(wire.sent) < MaxReplies
    /\ wire' = [wire EXCEPT !.src = "server", !.buf = @ \o Encode(rp),
                            !.sent = Append(@, rp), !.op = "write",
                            !.pre = <<>>, !.rp = WNoReply, !.err = FALSE, !.panic = FALSE,
                            !.f = "", !.val = NoValue]
    /\ UNCHANGED wvars

\* a client writes one command, packed by packCommand
W_Command ==
    /\ wire.src = "none"
    /\ \E args \in ArgTuples :
         wire' = [NoWire EXCEPT !.src = "client", !.buf = packCommand(args),
                                !.args = args, !.op = "write"]
    /\ UNCHANGED wvars

\* a peer writes arbitrary bytes and closes the stream
W_Stream ==
    /\ wire.src = "none"
    /\ \E b \in Streams :
         wire' = [NoWire EXCEPT !.src = "stream", !.buf = b, !.eof = TRUE, !.op = "write"]
    /\ UNCHANGED wvars

\* Connection.RecvReply is called on the stream; on a stream still open it
\* waits until the server has written a reply it has not returned yet
W_RecvReply ==
    /\ wire.src # "none"
    /\ ~wire.panic
    /\ wire.buf # <<>>
    /\ wire.src = "server" => Len(wire.got) < Len(wire.sent)
    /\ LET x == RecvReply(wire.buf)
       IN wire' = [wire EXCEPT !.op = "RecvReply", !.pre = wire.buf, !.buf = x.rest,
                               !.rp = x.rp, !.err = x.err, !.panic = x.panic,
                               !.got = IF x.err \/ x.panic THEN @ ELSE Append(@, x.rp),
                               !.f = "", !.val = NoValue]
    /\ UNCHANGED wvars

\* a command call got the server's one reply: the projection or the wrapper f
\* is applied to what RecvReply returned
W_Value(f) ==
    /\ wire.src = "server" /\ Len(wire.sent) = 1
    /\ wire.op = "RecvReply" /\ ~wire.panic
    /\ f \in Wrappers \/ ~wire.err
    /\ wire' = [wire EXCEPT !.op = "value", !.f = f, !.val = Apply(f, wire.rp, wire.err)]
    /\ UNCHANGED wvars

Next ==
    \/ \E p \in Callers : SC_Get(p)
    \/ \E p \in Callers : SC_Body(p)
    \/ \E p \in Callers : SC_Return(p)
    \/ \E p \in Callers : Pipelining(p)
    \/ \E p \in Callers : P_Command(p)
    \/ \E p \in Callers : P_Receive(p)
    \/ \E p \in Callers : P_ReceiveAll(p)
    \/ \E p \in Callers : P_Close(p)
    \/ \E p \in Callers : Transaction(p)
    \/ \E p \in Callers : T_Close(p)

Spec == Init /\ [][Next]_vars

\* ---- ordinary calls on a client of capacity 1 ----------------------------
\* both goroutines make ordinary calls, nothing else uses the client
InitSer == Init /\ r.size = 1

NextSer ==
    \/ \E p \in Callers : SC_Get(p)
    \/ \E p \in Callers : SC_Body(p)
    \/ \E p \in Callers : SC_Return(p)

\* the goroutines go on: a receive from the channel that can proceed again
\* and again does proceed (waiting receivers are served in turn), and a
\* goroutine inside Redis.SendCommand that can take its next step takes it
SpecSer ==
    /\ InitSer
    /\ [][NextSer]_vars
    /\ \A p \in Callers :
         SF_vars(SC_Get(p)) /\ WF_vars(SC_Body(p)) /\ WF_vars(SC_Return(p))

\* ---- the handles ---------------------------------------------------------
\* one goroutine opens one handle at a time and uses it
NextH ==
    \/ Transaction(1)
    \/ T_Command(1)
    \/ T_Watch(1)
    \/ T_UnWatch(1)
    \/ T_Discard(1)
    \/ T_Exec(1)
    \/ Touch(1)
    \/ T_Close(1)
    \/ Pipelining(1)
    \/ P_Command(1)
    \/ P_Receive(1)
    \/ P_ReceiveAll(1)
    \/ P_Close(1)
    \/ PubSub(1)
    \/ PS_Subscribe(1)
    \/ PS_PSubscribe(1)
    \/ PS_UnSubscribe(1)
    \/ PS_PUnSubscribe(1)
    \/ PS_Recv(1)
    \/ Publish(1)
    \/ PS_Close(1)

SpecH == Init /\ [][NextH]_vars

\* ---- a ConnPool used by the goroutines -----------------------------------
\* the state after NewConnPool(maxidle, dial)
InitPool ==
    /\ \E maxidle \in MaxIdles : connPool = NewConnPool(maxidle)
    /\ r = [size |-> 1, db |-> 0, password |-> ""]
    /\ pool = <<>>
    /\ conns = <<>>
    /\ call = [p \in Callers |-> IdleCall]
    /\ pipe = [p \in Callers |-> NoPipe]
    /\ srv = [p \in Callers |-> NoSrv]
    /\ tx = [p \in Callers |-> NoTx]
    /\ ps = [p \in Callers |-> NoSub]
    /\ prevEOF = FALSE
    /\ ev = NoEv
    /\ wire = NoWire

NextPool ==
    \/ \E g \in Callers : CP_CallGet(g)
    \/ \E g \in Callers : CP_CallPut(g)
    \/ \E g \in Callers : CP_CallClose(g)
    \/ \E g \in Callers : CP_Get(g)
    \/ \E g \in Callers : CP_Dial(g)
    \/ \E g \in Callers : CP_Put(g)
    \/ \E g \in Callers : CP_Close(g)

\* a goroutine inside a call goes on: sync.Mutex hands the lock to every
\* waiter in turn, and Dial returns
SpecPool ==
    /\ InitPool
    /\ [][NextPool]_vars
    /\ \A g \in Callers :
         /\ SF_vars(CP_Get(g)) /\ SF_vars(CP_Put(g)) /\ SF_vars(CP_Close(g))
         /\ WF_vars(CP_Dial(g))

\* ---- a PubSub handle beside ordinary commands ----------------------------
\* goroutine 1 holds a PubSub handle while goroutine 2 runs ordinary
\* commands such as Publish through Redis.SendCommand
NextPub ==
    \/ PubSub(1)
    \/ PS_Recv(1)
    \/ PS_Close(1)
    \/ SC_Get(2)
    \/ SC_Body(2)
    \/ SC_Return(2)

SpecPub == Init /\ [][NextPub]_vars

\* ---- a PubSub handle whose server also writes other replies --------------
NextFrames ==
    \/ PubSub(1)
    \/ PS_Subscribe(1)
    \/ PS_PSubscribe(1)
    \/ S_Push(1)
    \/ PS_Recv(1)

SpecFrames == Init /\ [][NextFrames]_vars

\* ---- the byte stream of one connection ----------------------------------
InitWire ==
    /\ wire = NoWire
    /\ connPool = NewConnPool(0)
    /\ r = [size |-> 1, db |-> 0, password |-> ""]
    /\ pool = <<>>
    /\ conns = <<>>
    /\ call = [p \in Callers |-> IdleCall]
    /\ pipe = [p \in Callers |-> NoPipe]
    /\ srv = [p \in Callers |-> NoSrv]
    /\ tx = [p \in Callers |-> NoTx]
    /\ ps = [p \in Callers |-> NoSub]
    /\ prevEOF = FALSE
    /\ ev = NoEv

NextWire ==
    \/ \E rp \in WireReplies : W_Reply(rp)
    \/ W_Command
    \/ W_Stream
    \/ W_RecvReply
    \/ \E f \in Projections \cup Wrappers : W_Value(f)

SpecWire == InitWire /\ [][NextWire]_vars

\* ---- the items of one command ---------------------------------------------
Verb == StrItem("MSET")
\* the items a wrapper passes after the verb
Items ==
    { StrItem("k"), StrItem(""), IntItem("1"),
      NilOf("slice"), SliceItem(<<>>), SliceItem(<<StrItem("a"), StrItem(""), IntItem("2")>>),
      NilOf("bytes"), BytesItem(<<>>), BytesItem(<<"x", "y">>),
      NilOf("map"), MapItem({}), MapItem({<<StrItem("k1"), StrItem("v1")>>}),
      MapItem({<<StrItem("k1"), StrItem("v1")>>, <<StrItem("k2"), IntItem("1")>>,
               <<StrItem("k3"), StrItem("")>>}),
      Item("nil") }
ItemTuples == UNION {[1..n -> Items] : n \in 0..MaxItems}

\* a wrapper calls packArgs(verb, items...)
W_packArgs ==
    /\ wire.src = "items" /\ wire.op = "init"
    /\ \E x \in packArgs(wire.items) :
         wire' = [wire EXCEPT !.op = "packArgs", !.packed = x.args, !.panic = x.panic]
    /\ UNCHANGED wvars

InitArgs ==
    /\ \E t \in ItemTuples : wire = [NoWire EXCEPT !.src = "items", !.items = <<Verb>> \o t]
    /\ connPool = NewConnPool(0)
    /\ r = [size |-> 1, db |-> 0, password |-> ""]
    /\ pool = <<>>
    /\ conns = <<>>
    /\ call = [p \in Callers |-> IdleCall]
    /\ pipe = [p \in Callers |-> NoPipe]
    /\ srv = [p \in Callers |-> NoSrv]
    /\ tx = [p \in Callers |-> NoTx]
    /\ ps = [p \in Callers |-> NoSub]
    /\ prevEOF = FALSE
    /\ ev = NoEv

NextArgs == W_packArgs

SpecArgs == InitArgs /\ [][NextArgs]_vars

TypeOK ==
    /\ Len(pool) <= r.size

\* ---- the pool: who holds what -------------------------------------------
\* the goroutines that took a slot out of the channel and have not put one back
Holders == {p \in Callers : call[p].pc \in {"got", "ret", "pipe"}}

\* the connections goroutine p may send on or receive from
InUse(p) ==
    IF call[p].pc \in {"got", "ret"} THEN {call[p].c, call[p].dc} \ {Nil}
    ELSE IF call[p].pc = "pipe" THEN {pipe[p].conn}
    ELSE IF call[p].pc = "txn" THEN {call[p].c}
    ELSE {}

\* the connections in the channel
PoolConns == {pool[i] : i \in 1..Len(pool)} \ {Nil}

\* ---- C1 -----------------------------------------------------------------
\* C1: a Connection of the channel pool is never in use by two callers at
\* once: between getConnection handing it out and activeConnection putting
\* it back no other goroutine holds it, it is not in the channel, it is in
\* the channel at most once, and what an ordinary call reads from it is the
\* reply to its own command.
C1_Exclusive ==
    /\ \A p, q \in Callers : p # q => InUse(p) \cap InUse(q) = {}
    /\ \A p \in Callers : InUse(p) \cap PoolConns = {}
    /\ \A i, j \in 1..Len(pool) : (i # j /\ pool[i] # Nil) => pool[i] # pool[j]
    /\ \A p \in Callers :
         call[p].pc \in {"got", "ret"} =>
           \A c \in InUse(p) : \A i \in 1..Len(conns[c].inbox) :
              conns[c].inbox[i] = CmdReply(p)
    /\ (ev.op = "SC_Body" /\ ~ev.err) => ev.res = CmdReply(ev.p)

\* two goroutines use pooled connections at the same time: one inside an
\* ordinary call that has its reply, the other holding a Pipelined handle
C1_Witness ==
    \E p, q \in Callers :
       /\ p # q
       /\ call[p].pc = "ret" /\ call[p].c # Nil
       /\ ev.op = "SC_Body" /\ ev.p = p /\ ~ev.err
       /\ call[q].pc = "pipe" /\ pipe[q].n > 0

\* ---- C2 -----------------------------------------------------------------
\* C2: the slots in the channel plus the slots held (ordinary calls in
\* progress, open Pipelined handles) always number K; every call that takes
\* a slot and fails gives the slot back.
C2_SlotsConserved == Len(pool) + Cardinality(Holders) = r.size

\* ---- C3 -----------------------------------------------------------------
\* C3: at most K callers hold a pooled connection at any instant, and when
\* K slots are checked out the channel is empty, so that getConnection in a
\* further ordinary call or Pipelining cannot return before a holder has
\* called activeConnection.
C3_AtMostK ==
    /\ Cardinality(Holders) <= r.size
    /\ Cardinality(Holders) = r.size =>
         /\ pool = <<>>
         /\ \A p \in Callers : ~ENABLED SC_Get(p) /\ ~ENABLED Pipelining(p)

\* K slots are checked out and a goroutine that holds none is waiting
C3_Witness ==
    /\ Cardinality(Holders) = r.size
    /\ \E p \in Callers : call[p].pc = "idle"
    /\ \E q \in Callers : call[q].pc = "got"

\* ---- C4 -----------------------------------------------------------------
\* C4: a connection on which an ordinary command call observed io.EOF is
\* never put back into the pool: the slot the call releases holds the
\* freshly dialed replacement or nil.
C4_NoEOFConnPooled ==
    \A i \in 1..Len(pool) : pool[i] # Nil => ~conns[pool[i]].eof

\* ---- C5 -----------------------------------------------------------------
\* C5: in an ordinary command call, io.EOF from the send causes exactly one
\* redial and one resend whose error is returned; io.EOF from the receive
\* causes exactly one redial, one resend and one further receive whose
\* outcome is returned as it is; any other error is returned at once,
\* without a dial or a resend.
C5_EOFPolicy ==
    ev.op = "SC_Body" =>
      LET b(x) == IF x THEN 1 ELSE 0
      IN /\ ev.nd = b(ev.sEOF) + b(ev.rEOF)
         /\ ev.ns = 1 + ev.nd - b(ev.dfail)
         /\ ev.nr <= 1 + b(ev.rEOF)
         /\ (ev.rEOF /\ ~ev.err) => ev.nr = 2
         /\ (~ev.sEOF /\ ~ev.rEOF) => (ev.nd = 0 /\ ev.ns = 1 /\ ~ev.dfail)
         /\ ev.dfail => ev.err
         /\ ev.err <=> ev.res = NoReply

\* a call whose receive returned io.EOF redialed once, resent, received
\* again and returned that reply
C5_Witness ==
    /\ ev.op = "SC_Body"
    /\ ev.rEOF /\ ~ev.sEOF /\ ~ev.err
    /\ ev.nd = 1 /\ ev.ns = 2 /\ ev.nr = 2

\* ---- C6 -----------------------------------------------------------------
\* C6: after an ordinary call observed io.EOF, the next ordinary call
\* succeeds, provided the server can be reached (no dial fails and the
\* server closes no connection during that call).
C6_NextCallSucceeds ==
    (ev.op = "SC_Body" /\ ev.pre /\ ~ev.env /\ ~ev.dfail) =>
       (~ev.err /\ ev.res = CmdReply(ev.p))

\* ---- C7 -----------------------------------------------------------------
\* the handshake a connection of this client has to have sent
ExpectedHandshake ==
    (IF r.password # "" THEN <<[cmd |-> "AUTH", arg |-> r.password]>> ELSE <<>>)
    \o (IF r.db > 0 THEN <<[cmd |-> "SELECT", arg |-> ToString(r.db)]>> ELSE <<>>)

\* C7: every connection openConnection returned has sent AUTH (exactly when
\* the password is not empty) and then SELECT (exactly when db > 0), and the
\* reply of each was read; when the server rejects either, openConnection
\* fails and returns no connection; a connection taken back out of the pool
\* sends neither again.
C7_Handshake ==
    /\ \A i \in DOMAIN conns :
         conns[i].st # "free" =>
           /\ conns[i].ready
           /\ conns[i].hs = ExpectedHandshake
           /\ \A j \in 1..Len(conns[i].inbox) :
                conns[i].inbox[j].k \notin {"AUTH", "SELECT"}
    /\ \A o \in DialOutcomes(conns) \cap {"authrej", "selrej"} :
         openConnection(conns, o).err /\ openConnection(conns, o).c = Nil

\* a client with a password and db > 0 completed an ordinary call on a
\* connection that came out of the pool, without a dial
C7_Witness ==
    /\ r.password # "" /\ r.db > 0
    /\ ev.op = "SC_Body" /\ ~ev.err /\ ev.nd = 0
    /\ conns[ev.c].hs = ExpectedHandshake
    /\ Len(ExpectedHandshake) = 2

\* ---- C8 -----------------------------------------------------------------
\* C8: Pipelined.Close returns the connection to the pool still open only
\* when the outstanding-reply count is zero; otherwise it closes the
\* connection and does not put it into the pool.
C8_CloseByCount ==
    ev.op = "Pipelined.Close" =>
      IF ev.t0 = 0
      THEN ev.c \in PoolConns /\ conns[ev.c].st # "closed"
      ELSE ev.c \notin PoolConns /\ conns[ev.c].st = "closed"

\* ---- C9 -----------------------------------------------------------------
\* the replies to commands first..last of a handle, in the order sent
RepliesTo(first, last) == [i \in 1..(last - first + 1) |-> PipeReply(first + i - 1)]

\* C9 (as stated): after n successful Command and m successful Receive
\* calls, ReceiveAll reads exactly n - m replies and returns them in the
\* order their commands were sent; afterwards the count is zero.
C9_ReceiveAllDrains ==
    ev.op = "ReceiveAll" =>
      LET n == pipe[ev.p].n
      IN /\ ev.reads = n - ev.m0
         /\ ev.rps = RepliesTo(ev.m0 + 1, n)
         /\ pipe[ev.p].times = 0

\* C9 (amended): the same when ReceiveAll returns a nil error; when a
\* receive fails, ReceiveAll returns the error with the replies read before
\* it, in the order sent, followed by nil entries, and the count is the
\* number of replies not read; with a count of zero it returns nothing and
\* reads nothing.
C9_ReceiveAll ==
    ev.op = "ReceiveAll" =>
      LET n == pipe[ev.p].n
          got == ev.reads - 1
      IN /\ ev.t0 = n - ev.m0
         /\ ~ev.err =>
              /\ ev.reads = n - ev.m0
              /\ ev.rps = RepliesTo(ev.m0 + 1, n)
              /\ pipe[ev.p].times = 0
         /\ ev.err =>
              /\ ev.reads \in 1..ev.t0
              /\ Len(ev.rps) = ev.t0
              /\ \A i \in 1..ev.t0 :
                   ev.rps[i] = IF i <= got THEN PipeReply(ev.m0 + i) ELSE NoReply
              /\ pipe[ev.p].times = ev.t0 - got
         /\ ev.t0 = 0 => (ev.reads = 0 /\ ev.rps = <<>> /\ ~ev.err)

\* after two Command calls and one Receive, ReceiveAll returned the reply
\* to the second command
C9_Witness ==
    /\ ev.op = "ReceiveAll" /\ ~ev.err
    /\ pipe[ev.p].n = 2 /\ ev.m0 = 1
    /\ ev.rps = <<PipeReply(2)>>
    /\ pipe[ev.p].times = 0

C11_ExecReturnsQueued ==
    (ev.op = "Transaction.Exec" /\ ~ev.trip) =>
       /\ ~ev.err
       /\ Len(ev.rps) = Len(ev.cmds)
       /\ \A i \in 1..Len(ev.cmds) : ev.rps[i] = Result(ev.cmds[i], i)

\* C11 (amended): the same for a handle on which nothing but these n
\* Command calls was done since Redis.Transaction returned it, when EXEC is
\* sent and its reply is read without an I/O error and the server does not
\* answer EXEC with an Error reply.
C11_Exec ==
    (ev.op = "Transaction.Exec" /\ ev.pure /\ ~ev.io /\ ev.res.t # "error") =>
       /\ ~ev.err
       /\ ~ev.trip
       /\ Len(ev.rps) = Len(ev.cmds)
       /\ \A i \in 1..Len(ev.cmds) :
            /\ ev.rps[i] = Result(ev.cmds[i], i)
            /\ ev.rps[i].t = "error" <=> ev.cmds[i] = "INCR"

\* Exec returned two replies: the Error of the first command queued, which
\* failed on the server, and the Status of the second
C11_Witness ==
    /\ ev.op = "Transaction.Exec" /\ ev.pure /\ ~ev.err
    /\ ev.cmds = <<"INCR", "SET">>
    /\ Len(ev.rps) = 2
    /\ ev.rps[1].t = "error" /\ ev.rps[2].t = "status"

\* ---- C12 ----------------------------------------------------------------
\* C12: when the server answers MULTI with anything but Status OK,
\* Redis.Transaction returns an error and no handle; when it answers WATCH,
\* UNWATCH or DISCARD with an Error reply, the method returns an error.
C12_SetupErrors ==
    /\ (ev.op = "Transaction" /\ ev.res # StatusOK("MULTI")) =>
          (ev.err /\ ev.c = Nil)
    /\ (ev.op \in {"Transaction.Watch", "Transaction.UnWatch", "Transaction.Discard"}
          /\ ev.res.t = "error") => ev.err

C14_NullMulti ==
    (ev.op = "Transaction.Exec" /\ ~ev.io /\ ev.res.t = "multi" /\ ev.res.n < 0) =>
       (ev.trip /\ ~ev.err /\ ev.rps = <<>>)

\* Exec read the Null Multi of a WATCH conflict
C14_Witness ==
    /\ ev.op = "Transaction.Exec" /\ ev.trip
    /\ ev.res = NullMulti("EXEC")
    /\ ~ev.err /\ ev.rps = <<>>

\* ---- C15 -----------------------------------------------------------------
\* the operations on a handle that use its connection
HandleOps ==
    {"Transaction.Command", "Transaction.Watch", "Transaction.UnWatch",
     "Transaction.Discard", "Transaction.Exec", "Command", "Receive", "ReceiveAll",
     "PubSub.Subscribe", "PubSub.PSubscribe", "PubSub.UnSubscribe", "PubSub.PUnSubscribe",
     "PubSub.Recv"}

\* the connection of the handle goroutine p holds
HandleConn(p) == IF call[p].pc = "pipe" THEN pipe[p].conn ELSE call[p].c

\* C15: an operation on a Transaction, Pipelined or PubSub handle never
\* dials and never sends its command again: the handle is on the same
\* connection afterwards, no connection appeared, no other connection
\* changed, no handshake was sent, the server got at most one command, and
\* a failed send or receive is returned to the caller as an error.
C15_HandleNoRedial ==
    [][\A p \in Callers :
         (ev'.p = p /\ ev'.op \in HandleOps) =>
            LET c == HandleConn(p)
            IN /\ c # Nil
               /\ (IF call'[p].pc = "pipe" THEN pipe'[p].conn ELSE call'[p].c) = c
               /\ ev'.c = c
               /\ FreeIds(conns') = FreeIds(conns)
               /\ \A i \in DOMAIN conns : i # c => conns'[i] = conns[i]
               /\ conns'[c].hs = conns[c].hs
               /\ Len(conns'[c].inbox) <= Len(conns[c].inbox) + 1
               /\ (ev'.io => ev'.err)]_vars

\* C15 witness: a Transaction.Command whose send or receive failed returned
\* the error and the handle is still on that, now dead, connection.
C15_Witness ==
    /\ ev.op = "Transaction.Command" /\ ev.io /\ ev.err
    /\ call[ev.p].pc = "txn" /\ call[ev.p].c = ev.c
    /\ conns[ev.c].st = "dead"

\* ---- C16 -----------------------------------------------------------------
PubSubOps ==
    {"PubSub", "PubSub.Subscribe", "PubSub.PSubscribe", "PubSub.UnSubscribe",
     "PubSub.PUnSubscribe", "PubSub.Recv", "PubSub.Close"}

\* C16: Redis.PubSub dials a connection no one referred to and leaves the
\* channel as it was, the handle it returns has empty Channels and
\* Patterns, and no method of the handle touches the channel; so whenever
\* every goroutine is idle or holds a PubSub handle the channel holds all
\* its slots and an ordinary command finds one.
C16_PubSubOwnConn ==
    [][/\ ev'.op \in PubSubOps => pool' = pool
       /\ (ev'.op = "PubSub" /\ ~ev'.err) =>
             /\ ev'.c \in FreeIds(conns)
             /\ call'[ev'.p].pc = "sub" /\ call'[ev'.p].c = ev'.c
             /\ conns'[ev'.c].st \in {"open", "dead"}
             /\ ps'[ev'.p].Channels = {} /\ ps'[ev'.p].Patterns = {}
       /\ (\A q \in Callers : call'[q].pc \in {"idle", "sub"}) => Len(pool') = r'.size]_vars

\* C16 witness: on a client of capacity 1, goroutine 2's command got its
\* reply while the PubSub handle of goroutine 1 was open with nothing to
\* read, that is blocked in Recv.
C16_Witness ==
    /\ r.size = 1
    /\ call[1].pc = "sub" /\ conns[call[1].c].st = "open" /\ conns[call[1].c].inbox = <<>>
    /\ ev.op = "SC_Body" /\ ev.p = 2 /\ ~ev.err /\ ev.res = CmdReply(2)

\* ---- C17 -----------------------------------------------------------------
\* the set S after an acknowledgment of kind for name was processed, where
\* on adds and off removes
After(S, kind, name, on, off) ==
    IF kind = on THEN S \cup {name} ELSE IF kind = off THEN S \ {name} ELSE S

\* C17: Channels and Patterns start empty and only Recv changes them; each
\* frame Recv processes leaves Channels with the channels whose latest
\* acknowledgment is subscribe (a subscribe adds its channel, an
\* unsubscribe removes it) and Patterns likewise for psubscribe and
\* punsubscribe; a channel acknowledgment leaves Patterns alone, a pattern
\* acknowledgment leaves Channels alone, message and pmessage leave both.
C17_SetsFollowAcks ==
    [][\A p \in Callers :
         /\ (ev'.p = p /\ ev'.op = "PubSub" /\ ~ev'.err) =>
               ps'[p].Channels = {} /\ ps'[p].Patterns = {}
         /\ (ev'.p = p /\ ev'.op \in PubSubOps \ {"PubSub", "PubSub.Recv", "PubSub.Close"}) =>
               ps'[p].Channels = ps[p].Channels /\ ps'[p].Patterns = ps[p].Patterns
         /\ (ev'.p = p /\ ev'.op = "PubSub.Recv" /\ ev'.io) =>
               ps'[p].Channels = ps[p].Channels /\ ps'[p].Patterns = ps[p].Patterns
         /\ (ev'.p = p /\ ev'.op = "PubSub.Recv" /\ ~ev'.io) =>
               LET f == Head(conns[call[p].c].inbox)
                   kind == f.m[1].s
                   name == f.m[2].s
               IN /\ ps'[p].Channels =
                       After(ps[p].Channels, kind, name, "subscribe", "unsubscribe")
                  /\ ps'[p].Patterns =
                       After(ps[p].Patterns, kind, name, "psubscribe", "punsubscribe")]_vars

\* C17 witness: Recv processed the acknowledgment of unsubscribe b after
\* those of subscribe a, subscribe b and psubscribe a: channel a and
\* pattern a remain.
C17_Witness ==
    /\ ev.op = "PubSub.Recv" /\ ~ev.err
    /\ Len(ev.out) = 3 /\ ev.out[1] = "unsubscribe" /\ ev.out[2] = "b"
    /\ ps[ev.p].Channels = {"a"} /\ ps[ev.p].Patterns = {"a"}

\* ---- C18 -----------------------------------------------------------------
\* the command a method of the Subscribe family sends
CmdOf(op) ==
    CASE op = "PubSub.Subscribe" -> "SUBSCRIBE"
      [] op = "PubSub.UnSubscribe" -> "UNSUBSCRIBE"
      [] op = "PubSub.PSubscribe" -> "PSUBSCRIBE"
      [] OTHER -> "PUNSUBSCRIBE"

\* the elements of a pushed frame as strings
Strings(f) ==
    [i \in 1..Len(f.m) |-> IF f.m[i].t = "integer" THEN ToString(f.m[i].n) ELSE f.m[i].s]

\* C18: Subscribe, PSubscribe, UnSubscribe and PUnSubscribe read nothing:
\* the frames not yet read stay unread and, while the connection is up,
\* the acknowledgment is queued behind them. A Recv that reads a frame
\* reads the oldest unread one, only that one, and returns its elements:
\* [message, channel, payload] for a message and [pmessage, pattern,
\* channel, payload] for a pattern match. So after Subscribe(c) on a
\* handle with nothing unread, the first Recv that reads a frame returns
\* the subscribe acknowledgment for c.
C18_OneFramePerRecv ==
    [][\A p \in Callers :
         LET c == call[p].c
         IN /\ (ev'.p = p /\ ev'.op \in {"PubSub.Subscribe", "PubSub.PSubscribe",
                                           "PubSub.UnSubscribe", "PubSub.PUnSubscribe"}) =>
                  IF conns'[c].st = "open"
                  THEN conns'[c].inbox =
                         Append(conns[c].inbox, SubAnswer(srv[p], CmdOf(ev'.op), ev'.arg).rp)
                  ELSE conns'[c].inbox \in {conns[c].inbox, <<>>}
            /\ (ev'.p = p /\ ev'.op = "PubSub.Recv" /\ ~ev'.io) =>
                  LET f == Head(conns[c].inbox)
                  IN /\ ~ev'.err
                     /\ conns'[c].inbox = Tail(conns[c].inbox)
                     /\ ev'.out = Strings(f)
                     /\ \A ch \in ChanNames, m \in Payloads :
                          /\ f = MessageFrame(ch, m) => ev'.out = <<"message", ch, m>>
                          /\ \A pt \in PatNames :
                               f = PMessageFrame(pt, ch, m) => ev'.out = <<"pmessage", pt, ch, m>>
                     /\ ps[p].first # "" =>
                          /\ Len(ev'.out) = 3
                          /\ ev'.out[1] = "subscribe" /\ ev'.out[2] = ps[p].first]_vars

\* C18 witness: Recv returned a message published on channel a, which
\* the handle had subscribed to.
C18_Witness ==
    /\ ev.op = "PubSub.Recv" /\ ~ev.err
    /\ ev.out = <<"message", "a", "hello">>
    /\ "a" \in ps[ev.p].Channels

\* ---- C19 -----------------------------------------------------------------
\* C19: every Get called after the pool was closed returns the
\* 'connection pool closed' error and no connection.
C19_ClosedGetFails ==
    \A g \in Callers :
       [](connPool.th[g].pc = "Get.lock" /\ connPool.th[g].late
          => <>(/\ ev.op = "ConnPool.Get" /\ ev.p = g /\ ev.late
                /\ ev.err /\ ev.c = Nil))

\* ---- C20 -----------------------------------------------------------------
\* the connections in the idle list
IdleConns == {connPool.idle[j] : j \in 1..Len(connPool.idle)}

\* C20: once Close has run every connection the pool holds, that is every
\* element of the idle list, is closed: Close closed those that were idle
\* and a connection handed to a Put called after Close is closed and not
\* put into the list. So when every checked-out connection has been Put
\* back the pool holds no open connection.
C20_ClosedPoolHoldsNoOpen ==
    /\ connPool.closed => \A c \in IdleConns : connPool.cn[c] = "closed"
    /\ (ev.op = "ConnPool.Put" /\ ev.late) =>
          connPool.cn[ev.c] = "closed" /\ ev.c \notin IdleConns

\* C20 witness: Close found a connection idle and closed it, the other
\* connection was checked out then and was Put back afterwards: both are
\* closed and no goroutine holds one.
C20_Witness ==
    /\ connPool.closed
    /\ ev.op = "ConnPool.Put" /\ ev.late /\ connPool.cn[ev.c] = "closed"
    /\ IdleConns # {} /\ ev.c \notin IdleConns
    /\ \A g \in Callers : connPool.th[g] = NoTh

\* ---- C21 -----------------------------------------------------------------
\* the server is responsive: it has closed no connection the client still
\* refers to, and no dial or handshake failed
Responsive ==
    /\ \A i \in DOMAIN conns : conns[i].st # "dead"
    /\ ~ev.env /\ ~ev.dfail
    /\ ev.op \in {"SC_Get", "Pipelining", "Transaction", "PubSub"} => ~ev.err

\* C21: on a client of capacity 1 whose goroutines keep making ordinary
\* calls, as long as the server is responsive: a call holds the one
\* connection alone and the channel is empty meanwhile, so the other call
\* starts on the connection only after it was put back; every call that
\* took the connection returns, each goroutine's call returns again and
\* again, and each returns the reply to its own command and no error.
C21_ConcurrentCalls ==
    []Responsive =>
       /\ []C1_Exclusive
       /\ []((\E p \in Callers : call[p].pc \in {"got", "ret"}) => pool = <<>>)
       /\ [](ev.op = "SC_Body" => (~ev.err /\ ev.res = CmdReply(ev.p)))
       /\ \A p \in Callers : (call[p].pc \in {"got", "ret"}) ~> (call[p].pc = "idle")
       /\ \A p \in Callers : []<>(ev.op = "SC_Return" /\ ev.p = p)

\* C21 witness: goroutine 2 has the reply to its command while the channel
\* is empty, so a call of goroutine 1 waits in getConnection; the server
\* closed nothing.
C21_Witness ==
    /\ r.size = 1 /\ pool = <<>>
    /\ ev.op = "SC_Body" /\ ev.p = 2 /\ ~ev.err /\ ev.res = CmdReply(2)
    /\ call[1].pc = "idle" /\ call[2].pc = "ret"
    /\ Responsive

\* ---- C22 -----------------------------------------------------------------
\* the replies not yet returned, as the server wrote them
RECURSIVE EncodeAll(_)
EncodeAll(rps) == IF rps = <<>> THEN <<>> ELSE Encode(Head(rps)) \o EncodeAll(Tail(rps))

\* C22: when the server has written well-formed replies one after the other
\* on a connection, the k-th call of RecvReply returns the k-th reply, equal
\* in type, nesting, element order and leaf values, without error, and it
\* consumes the bytes of that reply and no other: what is left in the stream
\* is the encoding of the replies not yet returned.
C22_RepliesInOrder ==
    (wire.src = "server" /\ wire.op = "RecvReply") =>
        /\ ~wire.err /\ ~wire.panic
        /\ wire.got = SubSeq(wire.sent, 1, Len(wire.got))
        /\ wire.rp = wire.sent[Len(wire.got)]
        /\ wire.buf = EncodeAll(SubSeq(wire.sent, Len(wire.got) + 1, Len(wire.sent)))
        /\ wire.pre = Encode(wire.rp) \o wire.buf

\* the second of two replies was returned, a Multi nested to depth 3, after a
\* Bulk whose payload holds CR LF
C22_Witness ==
    /\ wire.src = "server" /\ wire.op = "RecvReply" /\ ~wire.err
    /\ Len(wire.got) = MaxReplies /\ wire.got = wire.sent
    /\ wire.got[1] = WBulk(<<"+", CR, LF, "$">>)
    /\ wire.rp.t = "multi" /\ wire.rp.n = 1
    /\ wire.rp.m[1].t = "multi" /\ wire.rp.m[1].m[1].t = "multi"
    /\ wire.rp.m[1].m[1].m[1] = WBulk(CRLF)

\* ---- C23 -----------------------------------------------------------------
\* C23: for every tuple of byte strings, the empty one and ones holding CR,
\* LF or NUL among them, RecvReply applied to the output of packCommand
\* returns, without error, a Multi reply with one non-nil Bulk per argument,
\* in order and equal byte for byte, and leaves no byte of the output unread.
C23_PackRoundTrip ==
    (wire.src = "client" /\ wire.op = "RecvReply") =>
        /\ ~wire.err /\ ~wire.panic
        /\ wire.pre = packCommand(wire.args)
        /\ wire.rp.t = "multi" /\ wire.rp.n >= 0
        /\ Len(wire.rp.m) = Len(wire.args)
        /\ \A i \in 1..Len(wire.args) :
             wire.rp.m[i].t = "bulk" /\ wire.rp.m[i].n >= 0 /\ wire.rp.m[i].s = wire.args[i]
        /\ wire.buf = <<>>

\* a command of an empty argument and one that holds protocol text with CR LF
\* was decoded
C23_Witness ==
    /\ wire.src = "client" /\ wire.op = "RecvReply" /\ ~wire.err
    /\ wire.args = << <<>>, <<"$", "1", CR, LF>> >>
    /\ wire.rp.m[2].s = <<"$", "1", CR, LF>>
    /\ wire.buf = <<>>

\* ---- C24 -----------------------------------------------------------------
\* the bytes buf begin with the bytes h
StartsWith(buf, h) == Len(buf) >= Len(h) /\ SubSeq(buf, 1, Len(h)) = h
NullBulkBytes == <<"$", "-", "1", CR, LF>>
EmptyBulkBytes == <<"$", "0", CR, LF, CR, LF>>
NullMultiBytes == <<"*", "-", "1", CR, LF>>
EmptyMultiBytes == <<"*", "0", CR, LF>>

\* C24: RecvReply decodes a Bulk of length -1 to a Bulk reply with nil
\* payload and a Bulk of length 0 to one with a non-nil payload of no bytes, a
\* Multi of count -1 to a Multi reply with nil sequence and a Multi of count
\* 0 to one with a non-nil sequence of no elements, none with an error;
\* BytesValue returns nil without error exactly for the null Bulk, and so
\* does Get when the server answers with the null Bulk.
C24_NullAndEmpty ==
    /\ (wire.src = "server" /\ wire.op = "RecvReply") =>
         /\ StartsWith(wire.pre, NullBulkBytes) =>
              ~wire.err /\ ~wire.panic /\ wire.rp.t = "bulk" /\ Bulk(wire.rp).nil
         /\ StartsWith(wire.pre, EmptyBulkBytes) =>
              /\ ~wire.err /\ ~wire.panic /\ wire.rp.t = "bulk"
              /\ ~Bulk(wire.rp).nil /\ Bulk(wire.rp).b = <<>>
         /\ StartsWith(wire.pre, NullMultiBytes) =>
              ~wire.err /\ ~wire.panic /\ wire.rp.t = "multi" /\ wire.rp.n < 0
         /\ StartsWith(wire.pre, EmptyMultiBytes) =>
              /\ ~wire.err /\ ~wire.panic /\ wire.rp.t = "multi"
              /\ wire.rp.n >= 0 /\ wire.rp.m = <<>>
    /\ (wire.op = "value" /\ wire.f \in {"BytesValue", "Get"}) =>
         ((~wire.val.err /\ wire.val.v.nil) <=> StartsWith(wire.pre, NullBulkBytes))
    /\ (wire.op = "value" /\ wire.f \in {"BytesValue", "Get"}
          /\ StartsWith(wire.pre, EmptyBulkBytes)) =>
         (~wire.val.err /\ ~wire.val.v.nil /\ wire.val.v.b = <<>>)

\* Get returned nil data and no error for the null Bulk the server wrote
C24_Witness ==
    /\ wire.op = "value" /\ wire.f = "Get"
    /\ wire.pre = NullBulkBytes /\ wire.sent = <<WNilBulk>>
    /\ ~wire.val.err /\ wire.val.v.nil

\* ---- C25 -----------------------------------------------------------------
TypeBytes == {"-", "+", ":", "$", "*"}
\* the bytes hold a line end; the first line without its terminator (LF and
\* the CR before it)
HasLine(b) == \E i \in 1..Len(b) : b[i] = LF
FirstLine(b) ==
    LET i == CHOOSE j \in 1..Len(b) : b[j] = LF /\ \A k \in 1..(j - 1) : b[k] # LF
    IN IF i > 1 /\ b[i - 1] = CR THEN SubSeq(b, 1, i - 2) ELSE SubSeq(b, 1, i - 1)
\* a decimal number: an optional sign and one digit or more
IsDecimal(str) ==
    LET digits == IF str # <<>> /\ str[1] \in {"+", "-"} THEN Tail(str) ELSE str
    IN digits # <<>> /\ \A i \in 1..Len(digits) : IsDigit(digits[i])
\* the three kinds of stream that are no reply: a first line that does not
\* begin with a type byte (a line of the terminator alone among them), a
\* header of an Integer, Bulk or Multi that is no decimal number, and a
\* stream that ends inside its first line
BadType(b) == HasLine(b) /\ (FirstLine(b) = <<>> \/ FirstLine(b)[1] \notin TypeBytes)
BadHeader(b) ==
    /\ HasLine(b) /\ FirstLine(b) # <<>>
    /\ FirstLine(b)[1] \in {":", "$", "*"}
    /\ ~IsDecimal(Tail(FirstLine(b)))
MidFrame(b) == ~HasLine(b)

\* C25: when the bytes of the stream are no well-formed reply (a first line
\* without a type byte, a header that is no decimal number, or a stream that
\* ends mid-frame), RecvReply returns an error; it does not panic and it
\* returns no reply.
C25_MalformedRejected ==
    (wire.src = "stream" /\ wire.op = "RecvReply"
       /\ (BadType(wire.pre) \/ BadHeader(wire.pre) \/ MidFrame(wire.pre))) =>
        (wire.err /\ ~wire.panic /\ wire.rp = WNoReply)

\* ---- C26 -----------------------------------------------------------------
\* C26: when the reply the server sent to a command is of type Error, the
\* command's wrapper returns a non-nil error; this holds for the wrappers
\* that return only an error (Ping, MSet, PSetex, FlushAll, FlushDB, BgSave)
\* and for BLPop and BRPop as for the others.
C26_ErrorReplyIsError ==
    (wire.op = "value" /\ wire.f \in Wrappers /\ wire.rp.t = "error") => wire.val.err

\* ---- C27 -----------------------------------------------------------------
\* the reply type a projection accepts, the text of its type error, and for
\* the projections of a sequence the type its elements must have
Expected(f) ==
    CASE f \in {"IntegerValue", "BoolValue"} -> "integer"
      [] f \in {"StatusValue", "OKValue"} -> "status"
      [] f \in {"BytesValue", "StringValue"} -> "bulk"
      [] OTHER -> "multi"
TypeText(f) ==
    CASE Expected(f) = "integer" -> "invalid reply type, not integer"
      [] Expected(f) = "status" -> "invalid reply type, not status"
      [] Expected(f) = "bulk" -> "invalid reply type, not bulk"
      [] OTHER -> "invalid reply type, not multi bulk"
ElementType(f) == IF f = "BoolArrayValue" THEN "integer" ELSE "bulk"
ArrayProjections == {"ListValue", "BytesArrayValue", "BoolArrayValue"}

\* C27: a projection of a Reply returns an error with the server's text when
\* the reply is of type Error, a type error when the reply is of another
\* type than the projection's, and a value with nil error only when the
\* type matches (then the value is the reply's); a projection of a sequence
\* returns an error and no partial result when an element is not of its
\* element type.
C27_Projections ==
    (wire.op = "value" /\ wire.f \in Projections) =>
        /\ wire.rp.t = "error" => (wire.val.err /\ wire.val.msg = wire.rp.s)
        /\ wire.rp.t \notin {"error", Expected(wire.f)} =>
             (wire.val.err /\ wire.val.msg = TypeText(wire.f))
        /\ ~wire.val.err => wire.rp.t = Expected(wire.f)
        /\ (wire.rp.t = Expected(wire.f) /\ wire.f # "OKValue"
              /\ wire.f \notin ArrayProjections \cup {"HashValue"}) =>
             /\ ~wire.val.err
             /\ wire.f = "IntegerValue" => wire.val.v = wire.rp.n
             /\ wire.f = "BoolValue" => wire.val.v = (wire.rp.n # 0)
             /\ wire.f \in {"StatusValue", "StringValue"} => wire.val.v = wire.rp.s
             /\ wire.f = "BytesValue" => wire.val.v.b = wire.rp.s
             /\ wire.f = "MultiValue" => wire.val.v = wire.rp.m
        /\ (wire.f \in ArrayProjections /\ wire.rp.t = "multi") =>
             IF \E j \in 1..Len(wire.rp.m) : wire.rp.m[j].t # ElementType(wire.f)
             THEN wire.val.err /\ wire.val.v = <<>>
             ELSE ~wire.val.err /\ Len(wire.val.v) = Len(wire.rp.m)

\* ListValue was applied to a Multi whose second element is an Error reply:
\* it returned the server's text and no element
C27_Witness ==
    /\ wire.op = "value" /\ wire.f = "ListValue"
    /\ wire.rp = WMulti(<<WBulk(<<"a">>), WError(<<"E", "R", "R">>)>>)
    /\ wire.val.err /\ wire.val.msg = <<"E", "R", "R">> /\ wire.val.v = <<>>

\* ---- C28 -----------------------------------------------------------------
\* C28: HashValue of a Multi reply of 2n Bulk elements returns without error
\* the mapping that sends the string of element 2i to the string of element
\* 2i+1, the last pair of a key winning, where a null Bulk as key or as value
\* counts as the empty string; so HGetAll returns every field the hash holds
\* with its value.
C28_HashValue ==
    /\ (wire.op = "value" /\ wire.f \in {"HashValue", "HGetAll"}
          /\ wire.rp.t = "multi" /\ Len(wire.rp.m) % 2 = 0
          /\ \A j \in 1..Len(wire.rp.m) : wire.rp.m[j].t = "bulk") =>
         LET pairs == 1..(Len(wire.rp.m) \div 2)
             key(i) == wire.rp.m[2 * i - 1].s
             value(i) == wire.rp.m[2 * i].s
         IN /\ ~wire.val.err
            /\ DOMAIN wire.val.v = {key(i) : i \in pairs}
            /\ \A i \in pairs :
                 (\A h \in pairs : h > i => key(h) # key(i)) => wire.val.v[key(i)] = value(i)
    /\ (wire.op = "value" /\ wire.f = "HGetAll" /\ wire.sent = <<HGetAllReply(WrittenPairs)>>) =>
         /\ ~wire.val.err
         /\ \A i \in 1..Len(WrittenPairs) :
              /\ WrittenPairs[i][1] \in DOMAIN wire.val.v
              /\ wire.val.v[WrittenPairs[i][1]] = WrittenPairs[i][2]

\* HashValue was applied to a reply in which the key a comes twice, the
\* second time with a null value, and a null key comes with the value c
C28_Witness ==
    /\ wire.op = "value" /\ wire.f = "HashValue" /\ ~wire.val.err
    /\ Len(wire.rp.m) = 6 /\ wire.rp.m[3] = WNilBulk /\ wire.rp.m[6] = WNilBulk
    /\ wire.rp.m[1] = wire.rp.m[5]
    /\ wire.val.v[<<"a">>] = <<>>
    /\ wire.val.v[<<>>] = <<"c">>

\* ---- C29 -----------------------------------------------------------------
\* C29: during one ordinary command call the command reaches the server at
\* most once, also when the connection is lost: after a send that was
\* written to a connection the server had open, the call does not send the
\* command again.
C29_AtMostOnce ==
    ev.op = "SC_Body" => ev.nx <= 1

\* ---- C30 -----------------------------------------------------------------
\* C30: every connection openConnection dialed for an ordinary command call
\* is in the pool or closed when the call returns, also when the handshake
\* or the retried send failed: no step of an ordinary call abandons a dialed
\* connection without closing it, so the connections open for ordinary
\* commands are never more than K.
C30_DialedPooledOrClosed ==
    ev.op \in {"SC_Get", "SC_Body", "SC_Return"} => ev.drop = 0

\* ---- C31 -----------------------------------------------------------------
\* C31: the pool never hands out a connection the client itself has closed:
\* the connection an ordinary command call takes from the channel, also
\* after Pipelined.Close was called on a handle of the same client, is one
\* on which Close was not called.
C31_NoClosedConnHandedOut ==
    (ev.op = "SC_Get" /\ ev.c # Nil) => conns[ev.c].st # "closed"

\* ---- C32 -----------------------------------------------------------------
\* C32: on a Pipelined handle p.times equals the number of Command calls
\* that returned nil minus the number of Receive calls that returned nil
\* since the handle was created (those made by ReceiveAll among them) and is
\* not negative; a Command or a Receive that returns an error leaves it as
\* it was.
C32_TimesIsSentMinusReceived ==
    /\ \A p \in Callers :
         call[p].pc = "pipe" =>
           (pipe[p].times = pipe[p].n - pipe[p].m /\ pipe[p].times >= 0)
    /\ (ev.op \in {"Command", "Receive"} /\ ev.err) => pipe[ev.p].times = ev.t0

\* a Receive failed after two commands were sent and one reply received: the
\* count is still one
C32_Witness ==
    /\ ev.op = "Receive" /\ ev.err
    /\ pipe[ev.p].n = 2 /\ pipe[ev.p].m = 1
    /\ ev.t0 = 1 /\ pipe[ev.p].times = 1

\* ---- C33 -----------------------------------------------------------------
\* C33: every call of ConnPool.Get, Put and Close has released the mutex
\* when it returns, on every path and whatever calls came before it, calls
\* on a closed pool among them; so no later call waits for the mutex for
\* ever.
C33_MutexReleased ==
    ev.op \in {"ConnPool.Get", "ConnPool.Put", "ConnPool.Close"} => ~connPool.locked

\* ---- C34 -----------------------------------------------------------------
\* the elements the verb of a frame requires
Required(verb) == IF verb = "pmessage" THEN 4 ELSE 3
\* the reply is no well-formed push frame: no Multi, a null or empty Multi,
\* or a Multi with fewer elements than its verb requires
Malformed(f) ==
    \/ f.t # "multi"
    \/ f.n <= 0
    \/ f.m[1].t = "bulk" /\ Len(f.m) < Required(f.m[1].s)

\* C34: when the reply PubSub.Recv reads is no well-formed push frame (no
\* Multi, a null or an empty Multi, a Multi with fewer elements than its
\* verb requires), Recv returns an error and does not panic.
C34_BadFrameIsError ==
    [][\A p \in Callers :
         (ev'.op = "PubSub.Recv" /\ ev'.p = p /\ ~ev'.io
            /\ Malformed(Head(conns[call[p].c].inbox))) =>
           (ev'.err /\ ~ev'.panic)]_vars

\* ---- C35 -----------------------------------------------------------------
\* C35: when PubSub.Recv returns an error, Channels and Patterns are what
\* they were before the call.
C35_ErrorLeavesSets ==
    [][\A p \in Callers :
         (ev'.op = "PubSub.Recv" /\ ev'.p = p /\ ev'.err /\ ~ev'.panic) =>
           (ps'[p].Channels = ps[p].Channels /\ ps'[p].Patterns = ps[p].Patterns)]_vars

\* ---- C36 -----------------------------------------------------------------
\* C36: Transaction.Command returns nil exactly when the reply it read is
\* the Status QUEUED; an Error reply, a reply of another type, a Status with
\* another text and a failed send or receive make it return an error.
C36_NilIffQueued ==
    ev.op = "Transaction.Command" =>
       (~ev.err <=> (~ev.io /\ ev.res.t = "status" /\ ev.res.s = "QUEUED"))

\* Command read a Status that is not QUEUED and returned an error
C36_Witness ==
    /\ ev.op = "Transaction.Command" /\ ev.err /\ ~ev.io
    /\ ev.res.t = "status" /\ ev.res.s = "OK"

\* ---- C37 -----------------------------------------------------------------
\* C37: for every MaxIdle from 0 on and every sequence of Get, Put and
\* Close, every Put returns normally, and the idle list never holds more
\* than MaxIdle connections.
C37_PutReturnsWithinMaxIdle ==
    /\ ev.op = "ConnPool.Put" => ~ev.panic
    /\ Len(connPool.idle) <= connPool.MaxIdle

\* ---- C38 -----------------------------------------------------------------
\* C38: when Put removes the oldest idle connection to make room for the
\* one it is given, the removed connection is closed.
C38_DroppedIsClosed ==
    [][(ev'.op = "ConnPool.Put" /\ ev'.drop = 1) =>
          connPool'.cn[Head(connPool.idle)] = "closed"]_vars

\* ---- C39 -----------------------------------------------------------------
\* the number of arguments an item stands for
Width(item) ==
    IF item.k \in {"slice", "bytes", "map"} /\ item.nil THEN 0
    ELSE IF item.k = "slice" THEN Len(item.e)
    ELSE IF item.k = "map" THEN 2 * Cardinality(item.m)
    ELSE IF item.k = "string" /\ item.s = "" THEN 0
    ELSE 1
\* the arguments that stand before those of item i
RECURSIVE Offset(_, _)
Offset(items, i) == IF i = 1 THEN 0 ELSE Offset(items, i - 1) + Width(items[i - 1])
\* seg is what the item is replaced by
Flattened(item, seg) ==
    IF item.k = "slice" THEN seg = item.e
    ELSE IF item.k = "bytes" THEN seg = <<StrItem(StringOf(item.b))>>
    ELSE IF item.k = "map"
    THEN /\ \A j \in 1..Cardinality(item.m) : <<seg[2 * j - 1], seg[2 * j]>> \in item.m
         /\ {<<seg[2 * j - 1], seg[2 * j]>> : j \in 1..Cardinality(item.m)} = item.m
    ELSE seg = <<item>>

\* C39: packArgs returns its items flattened in input order: a scalar is
\* kept, a slice that is no byte slice is replaced by its elements in order,
\* a byte slice becomes one string argument, a map is replaced by its
\* key/value pairs with every key immediately followed by its own value, nil
\* slices and nil maps and a top-level empty string contribute nothing, and
\* the verb given as first item stays first.
C39_Flattened ==
    (wire.op = "packArgs" /\ \A i \in 1..Len(wire.items) : wire.items[i].k # "nil") =>
       /\ ~wire.panic
       /\ Len(wire.packed) = Offset(wire.items, Len(wire.items) + 1)
       /\ \A i \in 1..Len(wire.items) :
            Width(wire.items[i]) > 0 =>
              Flattened(wire.items[i],
                        SubSeq(wire.packed, Offset(wire.items, i) + 1,
                               Offset(wire.items, i) + Width(wire.items[i])))
       /\ wire.packed[1] = wire.items[1]

\* packArgs was given an empty string and a map of three pairs and returned
\* the verb and the pairs, the key k2 before the key k1
C39_Witness ==
    /\ wire.op = "packArgs" /\ ~wire.panic
    /\ Len(wire.items) = 3 /\ wire.items[2] = StrItem("") /\ wire.items[3].k = "map"
    /\ Len(wire.packed) = 7
    /\ wire.packed[1] = Verb
    /\ \E j \in {1, 2} : wire.packed[2 * j] = StrItem("k2") /\ wire.packed[2 * j + 2] = StrItem("k1")

====
